---- MODULE Spec2Model ----
(***************************************************************************)
(* OriginDetective: the seven-step FTA origin determination workflow       *)
(* (services/origin_analyzer.py) with the manufacturer registry, the HS    *)
(* code service and the FTA rules engine it consults.                      *)
(*                                                                         *)
(* Text is a sequence of one-character strings, so that strip(), lower(),  *)
(* upper(), replace() and startswith() are computed.  A Python dict is a   *)
(* record whose DOMAIN holds exactly the keys present; a NULL column of a  *)
(* database row is a field absent from the record.  A float is a binary64  *)
(* value with the significand kept in four 15-bit limbs.                   *)
(***************************************************************************)
EXTENDS Integers, Sequences, FiniteSets, TLC

\* ------------------------------------------------------------------------
\* Bounds
\* ------------------------------------------------------------------------
\* longest row sequence the tabular loader hands to analyze_origin
MaxRows == 3

\* ------------------------------------------------------------------------
\* Text
\* ------------------------------------------------------------------------
UpperLetters == <<"A", "B", "C", "D", "E", "F", "G", "H", "I", "J", "K", "L", "M",
                  "N", "O", "P", "Q", "R", "S", "T", "U", "V", "W", "X", "Y", "Z">>
LowerLetters == <<"a", "b", "c", "d", "e", "f", "g", "h", "i", "j", "k", "l", "m",
                  "n", "o", "p", "q", "r", "s", "t", "u", "v", "w", "x", "y", "z">>
Digits == {"0", "1", "2", "3", "4", "5", "6", "7", "8", "9"}
Whitespace == {" ", "\t", "\n"}

LowerChar(c) ==
    IF \E i \in DOMAIN UpperLetters : UpperLetters[i] = c
    THEN LowerLetters[CHOOSE i \in DOMAIN UpperLetters : UpperLetters[i] = c]
    ELSE c

UpperChar(c) ==
    IF \E i \in DOMAIN LowerLetters : LowerLetters[i] = c
    THEN UpperLetters[CHOOSE i \in DOMAIN LowerLetters : LowerLetters[i] = c]
    ELSE c

\* str.lower() and str.upper()
Lower(s) == [i \in DOMAIN s |-> LowerChar(s[i])]
Upper(s) == [i \in DOMAIN s |-> UpperChar(s[i])]

RECURSIVE StripLeft(_)
StripLeft(s) == IF s # <<>> /\ Head(s) \in Whitespace THEN StripLeft(Tail(s)) ELSE s

RECURSIVE StripRight(_)
StripRight(s) ==
    IF s # <<>> /\ s[Len(s)] \in Whitespace THEN StripRight(SubSeq(s, 1, Len(s) - 1)) ELSE s

\* str.strip()
Strip(s) == StripRight(StripLeft(s))

\* str.replace(c, '') for a single character c
RemoveChar(s, c) == SelectSeq(s, LAMBDA x : x # c)

\* str.startswith(prefix)
StartsWith(s, prefix) == Len(s) >= Len(prefix) /\ SubSeq(s, 1, Len(prefix)) = prefix

\* s[:n]
Prefix(s, n) == SubSeq(s, 1, IF Len(s) < n THEN Len(s) ELSE n)

\* dict.get(key) is truthy: the key is present with a non-empty text
HasText(row, key) == key \in DOMAIN row /\ row[key] # <<>>

\* ------------------------------------------------------------------------
\* binary64 (Python float) arithmetic, round to nearest even.  A significand
\* is four limbs of 15 bits, least significant first.
\* ------------------------------------------------------------------------
LimbBase == 2 ^ 15
HalfLimb == 2 ^ 14
Zero4 == <<0, 0, 0, 0>>
One4 == <<1, 0, 0, 0>>
Pow52 == <<0, 0, 0, 128>>
Pow53 == <<0, 0, 0, 256>>

Carry4(a) ==
    LET c1 == a[1] \div LimbBase
        l2 == a[2] + c1
        c2 == l2 \div LimbBase
        l3 == a[3] + c2
        c3 == l3 \div LimbBase
    IN  <<a[1] % LimbBase, l2 % LimbBase, l3 % LimbBase, a[4] + c3>>

Add4(a, b) == Carry4(<<a[1] + b[1], a[2] + b[2], a[3] + b[3], a[4] + b[4]>>)

Geq4(a, b) ==
    IF a[4] # b[4] THEN a[4] > b[4]
    ELSE IF a[3] # b[3] THEN a[3] > b[3]
    ELSE IF a[2] # b[2] THEN a[2] > b[2]
    ELSE a[1] >= b[1]

\* a - b for a >= b
Sub4(a, b) ==
    LET d1 == a[1] - b[1]
        b1 == IF d1 < 0 THEN 1 ELSE 0
        d2 == a[2] - b[2] - b1
        b2 == IF d2 < 0 THEN 1 ELSE 0
        d3 == a[3] - b[3] - b2
        b3 == IF d3 < 0 THEN 1 ELSE 0
    IN  <<d1 + b1 * LimbBase, d2 + b2 * LimbBase, d3 + b3 * LimbBase, a[4] - b[4] - b3>>

Shl1(a) == Carry4(<<2 * a[1], 2 * a[2], 2 * a[3], 2 * a[4]>>)

Shr1(a) == <<(a[1] \div 2) + (a[2] % 2) * HalfLimb,
             (a[2] \div 2) + (a[3] % 2) * HalfLimb,
             (a[3] \div 2) + (a[4] % 2) * HalfLimb,
             a[4] \div 2>>

Odd4(a) == a[1] % 2 = 1

MulSmall4(a, k) == Carry4(<<a[1] * k, a[2] * k, a[3] * k, a[4] * k>>)

\* a double is [s |-> sign bit, m |-> 53-bit significand, e |-> exponent of the
\* last significand bit]; its value is (-1)^s * m * 2^e, zero has m = Zero4
FZero == [s |-> 0, m |-> Zero4, e |-> 0]

\* r = <<n, e, guard, sticky>>: shift right until n < 2^53, then round half even
RECURSIVE RoundDown(_, _)
RoundDown(s, r) ==
    IF Geq4(r[1], Pow53)
    THEN RoundDown(s, <<Shr1(r[1]), r[2] + 1, Odd4(r[1]), r[4] \/ r[3]>>)
    ELSE IF r[3] /\ (r[4] \/ Odd4(r[1]))
         THEN LET n1 == Add4(r[1], One4)
              IN  IF n1 = Pow53 THEN [s |-> s, m |-> Pow52, e |-> r[2] + 1]
                  ELSE [s |-> s, m |-> n1, e |-> r[2]]
         ELSE [s |-> s, m |-> r[1], e |-> r[2]]

\* ne = <<n, e>> with 0 < n < 2^53: shift left until the top bit is bit 52
RECURSIVE RoundUp(_, _)
RoundUp(s, ne) ==
    IF Geq4(ne[1], Pow52) THEN [s |-> s, m |-> ne[1], e |-> ne[2]]
    ELSE RoundUp(s, <<Shl1(ne[1]), ne[2] - 1>>)

\* the double nearest to (-1)^s * n * 2^e (ties to even); sticky says that the
\* exact value lies strictly above n * 2^e and below (n + 1) * 2^e
FRound(s, n, e, sticky) ==
    IF n = Zero4 THEN FZero
    ELSE IF Geq4(n, Pow52) THEN RoundDown(s, <<n, e, FALSE, sticky>>)
    ELSE RoundUp(s, <<n, e>>)

FromInt(i) ==
    IF i < 0 THEN FRound(1, <<-i, 0, 0, 0>>, 0, FALSE)
    ELSE FRound(0, <<i, 0, 0, 0>>, 0, FALSE)

\* n shifted right by d bits, the lost bits or-ed into the last bit kept
RECURSIVE ShrJam(_, _)
ShrJam(n, d) ==
    IF d = 0 \/ n = Zero4 \/ n = One4 THEN n
    ELSE LET h == Shr1(n)
         IN  ShrJam(IF Odd4(n) /\ ~Odd4(h) THEN Add4(h, One4) ELSE h, d - 1)

FAddOrdered(a, b) ==
    LET big == MulSmall4(a.m, 8)
        small == ShrJam(MulSmall4(b.m, 8), a.e - b.e)
    IN  IF a.s = b.s THEN FRound(a.s, Add4(big, small), a.e - 3, FALSE)
        ELSE IF Geq4(big, small) THEN FRound(a.s, Sub4(big, small), a.e - 3, FALSE)
        ELSE FRound(b.s, Sub4(small, big), a.e - 3, FALSE)

FAdd(x, y) ==
    IF x.m = Zero4 THEN y
    ELSE IF y.m = Zero4 THEN x
    ELSE IF x.e >= y.e THEN FAddOrdered(x, y) ELSE FAddOrdered(y, x)

\* long division, one quotient bit per round: qr = <<quotient, remainder>>
RECURSIVE DivLoop(_, _, _)
DivLoop(qr, d, i) ==
    IF i = 0 THEN qr
    ELSE IF Geq4(qr[2], d)
         THEN DivLoop(<<Add4(Shl1(qr[1]), One4), Shl1(Sub4(qr[2], d))>>, d, i - 1)
         ELSE DivLoop(<<Shl1(qr[1]), Shl1(qr[2])>>, d, i - 1)

\* x / y for y # 0: 56 quotient bits, the remainder as the sticky bit
FDiv(x, y) ==
    IF x.m = Zero4 THEN FZero
    ELSE LET qr == DivLoop(<<Zero4, x.m>>, y.m, 56)
         IN  FRound((x.s + y.s) % 2, qr[1], x.e - y.e - 55, qr[2] # Zero4)

FMulInt(x, k) ==
    IF x.m = Zero4 THEN FZero ELSE FRound(x.s, MulSmall4(x.m, k), x.e, FALSE)

FLess(x, y) ==
    IF x.m = Zero4 THEN y.m # Zero4 /\ y.s = 0
    ELSE IF y.m = Zero4 THEN x.s = 1
    ELSE IF x.s # y.s THEN x.s = 1
    ELSE LET lt == IF x.e # y.e THEN x.e < y.e ELSE ~Geq4(x.m, y.m)
             gt == IF x.e # y.e THEN x.e > y.e ELSE x.m # y.m /\ Geq4(x.m, y.m)
         IN  IF x.s = 0 THEN lt ELSE gt

FLeq(x, y) == ~FLess(y, x)

\* ------------------------------------------------------------------------
\* services/manufacturers.py
\* ------------------------------------------------------------------------
VN_NAMES == {<<"v", "i", "e", "t", "n", "a", "m">>,
             <<"v", "i", "e", "t", " ", "n", "a", "m">>,
             <<"s", "o", "c", "i", "a", "l", "i", "s", "t", " ", "r", "e", "p", "u", "b",
               "l", "i", "c", " ", "o", "f", " ", "v", "i", "e", "t", " ", "n", "a", "m">>}
VN_CODES == {<<"v", "n">>}

\* _norm(s): None becomes "", then strip and lower
norm(s) == Lower(Strip(s))

\* the cell of a CSV row under a header, "" when the column is missing
\* (dtype=str, fillna(""), and the `df[col] = ""` of the missing columns)
Cell(r, col) == IF col \in DOMAIN r THEN r[col] ELSE <<>>

\* the header renames of load(): the first header is renamed to the second
RenamedCell(r, old, col) == IF old \in DOMAIN r THEN r[old] ELSE Cell(r, col)

\* one row of the DataFrame load() returns, with its helper columns
LoadRow(r) ==
    LET name == RenamedCell(r, "Manufacturers: name", "name")
        country == RenamedCell(r, "Country of location", "country")
    IN  [manufacturer_id |-> Cell(r, "manufacturer_id"),
         name |-> name,
         country |-> country,
         country_code |-> Cell(r, "country_code"),
         id_norm |-> norm(Cell(r, "manufacturer_id")),
         name_norm |-> norm(name),
         country_norm |-> norm(country),
         cc_norm |-> norm(Cell(r, "country_code"))]

\* load that answers a missing file with a built-in sample list
load_with_sample(file) ==
    IF ~file.exists
    THEN <<LoadRow([manufacturer_id |-> <<"M", "F", "G", "-", "0", "0", "2">>,
                    name |-> <<"G", "l", "o", "b", "e", "x">>,
                    country |-> <<"G", "e", "r", "m", "a", "n", "y">>,
                    country_code |-> <<"D", "E">>])>>
    ELSE [i \in DOMAIN file.rows |-> LoadRow(file.rows[i])]

\* load(csv_path): file is [exists |-> FALSE] or [exists |-> TRUE, rows |-> <<...>>]
load(file) ==
    IF ~file.exists THEN <<>>
    ELSE [i \in DOMAIN file.rows |-> LoadRow(file.rows[i])]

\* row.drop(labels = the helper columns).to_dict()
MatchOf(row) == [manufacturer_id |-> row.manufacturer_id, name |-> row.name,
                 country |-> row.country, country_code |-> row.country_code]

\* lookup(name, manufacturer_id) on the loaded DataFrame df; a None argument is ""
lookup(df, name, manufacturer_id) ==
    LET name_n == norm(name)
        id_n == norm(manufacturer_id)
        by_id == IF id_n # <<>> THEN SelectSeq(df, LAMBDA r : r.id_norm = id_n) ELSE df
        cand == IF name_n # <<>> /\ by_id = <<>>
                THEN SelectSeq(df, LAMBDA r : r.name_norm = name_n)
                ELSE by_id
    IN  IF cand = <<>> THEN [found |-> FALSE, is_vietnam |-> FALSE]
        ELSE LET row == cand[1]
             IN  [found |-> TRUE,
                  is_vietnam |-> (row.cc_norm \in VN_CODES) \/ (row.country_norm \in VN_NAMES),
                  match |-> MatchOf(row)]

\* ------------------------------------------------------------------------
\* services/hs_code_service.py
\* ------------------------------------------------------------------------
\* the code with spaces and dots removed
CleanCode(hs_code) == RemoveChar(RemoveChar(hs_code, " "), ".")

\* what '$' leaves to be matched: it matches at the end and before a last newline
BeforeLastNewline(code) ==
    IF code # <<>> /\ code[Len(code)] = "\n" THEN SubSeq(code, 1, Len(code) - 1) ELSE code

\* re.match(r'^\d{4,10}$', code)
MatchesDigits4To10(code) ==
    \E body \in {code, BeforeLastNewline(code)} :
        /\ Len(body) >= 4
        /\ Len(body) <= 10
        /\ \A i \in DOMAIN body : body[i] \in Digits

\* is_valid_hs_code: the pattern on the cleaned code
is_valid_hs_code(hs_code) ==
    /\ hs_code # <<>>
    /\ MatchesDigits4To10(CleanCode(hs_code))

\* ------------------------------------------------------------------------
\* services/fta_rules_engine.py
\* ------------------------------------------------------------------------
KeyDefault == <<"d", "e", "f", "a", "u", "l", "t">>
Key6406 == <<"6", "4", "0", "6">>

\* _get_default_rules(): the built-in table, used when no configuration file exists
get_default_rules ==
    (KeyDefault :> [description |-> "General rules for origin determination",
                    rules |-> <<"Manufacturing or processing must result in a change in tariff classification",
                                "Value-added content must meet minimum thresholds",
                                "Specific manufacturing processes may be required">>])
    @@ (Key6406 :> [description |-> "Parts of footwear; removable in-soles, heel cushions",
                    rules |-> <<"Non-originating materials must not exceed 10% of FOB value",
                                "Manufacturing must involve substantial transformation",
                                "Assembly and finishing operations must occur in the originating country">>,
                    threshold |-> FromInt(10)])

\* dict.get(key, {})
GetOrEmpty(table, key) == IF key \in DOMAIN table THEN table[key] ELSE <<>>

\* get_rules_for_hs_code(hs_code) on the loaded table
get_rules_for_hs_code(table, hs_code) ==
    IF hs_code = <<>> THEN GetOrEmpty(table, KeyDefault)
    ELSE LET code == CleanCode(hs_code)
             heading == Prefix(code, 4)
         IN  IF code \in DOMAIN table THEN table[code]
             ELSE IF heading \in DOMAIN table THEN table[heading]
             ELSE GetOrEmpty(table, KeyDefault)

\* get_threshold_for_hs_code: rules.get('threshold', 10)
get_threshold_for_hs_code(table, hs_code) ==
    LET rules == get_rules_for_hs_code(table, hs_code)
    IN  IF "threshold" \in DOMAIN rules THEN rules.threshold ELSE FromInt(10)

\* ------------------------------------------------------------------------
\* Inputs: the rows of the tabular loader and the reference data
\* ------------------------------------------------------------------------
\* config/manufacturers.csv
ManufacturersCsv ==
    [exists |-> TRUE,
     rows |-> <<[manufacturer_id |-> <<"M", "F", "G", "-", "0", "0", "1">>,
                 name |-> <<"A", "c", "m", "e">>,
                 country |-> <<"V", "i", "e", "t", " ", "N", "a", "m">>,
                 country_code |-> <<"V", "N">>],
                [manufacturer_id |-> <<"M", "F", "G", "-", "0", "0", "2">>,
                 name |-> <<"G", "l", "o", "b", "e", "x">>,
                 country |-> <<"G", "e", "r", "m", "a", "n", "y">>,
                 country_code |-> <<"D", "E">>]>>]

\* the same file after an edit: Acme has moved, a third manufacturer is listed
RelocatedCsv ==
    [exists |-> TRUE,
     rows |-> <<[manufacturer_id |-> <<"M", "F", "G", "-", "0", "0", "1">>,
                 name |-> <<"A", "c", "m", "e">>,
                 country |-> <<"C", "h", "i", "n", "a">>,
                 country_code |-> <<"C", "N">>],
                [manufacturer_id |-> <<"M", "F", "G", "-", "0", "0", "3">>,
                 name |-> <<"N", "o", "b", "o", "d", "y">>,
                 country |-> <<"V", "i", "e", "t", "n", "a", "m">>,
                 country_code |-> <<>>]>>]

\* a manufacturer list at another path, with the headers the loader renames
OtherCsv ==
    [exists |-> TRUE,
     rows |-> <<("manufacturer_id" :> <<"M", "F", "G", "-", "0", "0", "9">>)
                @@ ("Manufacturers: name" :> <<"I", "n", "i", "t", "e", "c", "h">>)
                @@ ("Country of location" :> <<"V", "N">>)>>]

\* a file that does not exist
NoFile == [exists |-> FALSE]

\* config/agreement.json with a 5% threshold for heading 6406
AgreementJson ==
    (KeyDefault :> [description |-> "General rules", rules |-> <<"Change in tariff classification">>])
    @@ (Key6406 :> [description |-> "Parts of footwear",
                    rules |-> <<"Non-originating materials must not exceed 5% of FOB value">>,
                    threshold |-> FromInt(5)])

\* _load_fta_rules(): the JSON of the configuration file found, else the built-in table
RuleTables == {get_default_rules, AgreementJson}

\* a cost cell holding a decimal amount of cents/100, as the loader parses it
\* (pd.read_csv / pd.to_numeric give the nearest binary64 value)
Cents(c) == FDiv(FromInt(c), FromInt(100))

IsFloat(v) == "m" \in DOMAIN v

CN == <<"c", "n">>
HsSole == <<"6", "4", "0", "6", "1", "0">>
HsStrap == <<"4", "2", "0", "1", "0", "0">>
Sole == <<"S", "o", "l", "e">>
Strap == <<"S", "t", "r", "a", "p">>
Nobody == <<"N", "o", "b", "o", "d", "y">>
Unlisted == <<"M", "F", "G", "-", "9", "9", "9">>

\* rows that carry the manufacturer columns
ManufacturerRows ==
    {[manufacturer |-> <<"A", "C", "M", "E", " ">>, manufacturer_country |-> <<"C", "N">>],
     [manufacturer_id |-> <<"m", "f", "g", "-", "0", "0", "2">>,
      manufacturer_country |-> <<"V", "i", "e", "t", "n", "a", "m">>],
     [manufacturer_id |-> Unlisted],
     [manufacturer_id |-> Unlisted, manufacturer_country |-> <<"V", "i", "e", "t", " ", "N", "a", "m">>],
     [manufacturer |-> Nobody]}

\* rows that carry the material columns
MaterialRows ==
    {[material_name |-> Sole, country_of_origin |-> CN, hs_code |-> HsSole, cost_per_pair |-> Cents(7)],
     [material_name |-> Sole, country_of_origin |-> CN, hs_code |-> HsSole, cost_per_pair |-> Cents(100)],
     [material_name |-> Sole, country_of_origin |-> CN, hs_code |-> HsSole, cost_per_pair |-> FZero],
     [material_name |-> Strap, country_of_origin |-> CN, hs_code |-> HsStrap, cost_per_pair |-> Cents(63)],
     [material_name |-> Strap, country_of_origin |-> CN, hs_code |-> HsStrap, cost_per_pair |-> Cents(900)],
     [material_name |-> Strap, country_of_origin |-> CN, hs_code |-> HsStrap],
     [material_name |-> Strap, country_of_origin |-> CN, hs_code |-> HsStrap, cost_per_pair |-> Cents(-50)],
     [material_name |-> <<"L", "a", "c", "e">>, country_of_origin |-> <<"V", "N">>,
      hs_code |-> HsSole, cost_per_pair |-> Cents(900)],
     [country_of_origin |-> <<"T", "W">>, hs_code |-> <<"A", "B", "C">>],
     [material_name |-> <<"L", "a", "c", "e">>, country_of_origin |-> <<"V", "i", "e", "t", " ", "N", "a", "m">>,
      cost_per_pair |-> Cents(63)],
     [material_name |-> <<"G", "l", "u", "e">>, country_of_origin |-> <<"D", "E">>,
      hs_code |-> <<"3", "5", "0", "6", "1">>],
     [material_name |-> Sole, country_of_origin |-> CN, hs_code |-> HsSole,
      cost_per_pair |-> [text |-> <<"n", "/", "a">>]]}

RowSet == ManufacturerRows \cup MaterialRows

RECURSIVE SeqsUpTo(_, _)
SeqsUpTo(S, n) ==
    IF n = 0 THEN {<<>>}
    ELSE LET shorter == SeqsUpTo(S, n - 1)
         IN  shorter \cup {Append(s, x) : s \in {t \in shorter : Len(t) = n - 1}, x \in S}

\* what process_file may return
Inputs == SeqsUpTo(RowSet, MaxRows)

\* ------------------------------------------------------------------------
\* State
\* ------------------------------------------------------------------------
VARIABLES
    data,            \* the rows process_file returned
    fta_rules,       \* FTARulesEngine.fta_rules of the analyzer
    session,         \* the AnalysisSession row of the case
    materials,       \* the MaterialAnalysis rows of the case, in insertion order
    analysis_steps,  \* OriginAnalyzer.analysis_steps
    missing_fields,  \* OriginAnalyzer.missing_fields
    verdict,         \* the (result, reason) handed to _finalize_analysis
    pc,              \* the position of the request in upload_file / analyze_origin
    commits,         \* what each db.session.commit() of the last step made visible
    enrichment,      \* what the enrichment attempt of _finalize_analysis did
    files,           \* the reference files under config/, by path
    cache,           \* the lru_cache(maxsize=1) of manufacturers.load
    stale,           \* manufacturers.csv was rewritten and load.cache_clear() not called since
    seen,            \* the manufacturer table the lookups since the last cache_clear() began with
    engine,          \* fta_rules of the FTARulesEngine constructed last
    folder,          \* the upload folder: what is stored under each file name
    requests,        \* the upload requests in progress, each with its own case
    ret              \* the last call of a service function and what it returned

\* the state of one analysis, and the state of the reference services
analysisVars == <<data, fta_rules, session, materials, analysis_steps, missing_fields, verdict, pc,
                  commits, enrichment>>
serviceVars == <<files, cache, stale, seen, engine, ret>>
uploadVars == <<folder, requests>>

vars == <<data, fta_rules, session, materials, analysis_steps, missing_fields, verdict, pc,
          commits, enrichment, files, cache, stale, seen, engine, ret, folder, requests>>

\* the record r with column key set to value
SetField(r, key, value) ==
    [k \in DOMAIN r \cup {key} |-> IF k = key THEN value ELSE r[k]]

\* a constant text, and an f-string with the values it interpolates
Text(t) == [text |-> t, args |-> <<>>]
Fmt(t, a) == [text |-> t, args |-> <<a>>]

\* an entry of missing_fields: a literal, or a prefix followed by a material name
Field(key) == [key |-> key, name |-> <<>>]
FieldFor(key, name) == [key |-> key, name |-> name]

\* ------------------------------------------------------------------------
\* services/origin_analyzer.py: the seven steps as functions of their inputs
\* ------------------------------------------------------------------------
\* the loops of step 1: the first non-empty value of a column, stripped; a value
\* that strips to "" leaves the local empty and the scan goes on (None is "")
RECURSIVE ScanRows(_, _, _)
ScanRows(rows, key, cur) ==
    IF rows = <<>> THEN cur
    ELSE ScanRows(Tail(rows), key,
                  IF cur = <<>> /\ HasText(Head(rows), key) THEN Strip(Head(rows)[key]) ELSE cur)

\* the fallback loop of step 1: the first non-empty country_of_origin, then break
RECURSIVE CountryFallback(_)
CountryFallback(rows) ==
    IF rows = <<>> THEN <<>>
    ELSE IF HasText(Head(rows), "country_of_origin") THEN Strip(Head(rows)["country_of_origin"])
    ELSE CountryFallback(Tail(rows))

\* the declared country names Vietnam
CountryIsVietnam(manufacturer_country) ==
    LET country_norm == Lower(Strip(manufacturer_country))
    IN  \/ country_norm \in {<<"v", "i", "e", "t", "n", "a", "m">>, <<"v", "i", "e", "t", " ", "n", "a", "m">>}
        \/ country_norm = <<"v", "n">>

\* step 1, the reference list has the manufacturer
Step1FromCsv(csv_result) ==
    LET is_vn == csv_result.is_vietnam
    IN  [missing |-> <<>>,
         steps |-> <<[step |-> 1,
                      description |-> Fmt("Manufacturer matched in reference list: {}", csv_result.match),
                      is_vietnamese |-> is_vn, proceed |-> is_vn]>>,
         proceed |-> is_vn,
         reason |-> Text(IF is_vn THEN "Manufacturer found in Vietnam reference list."
                         ELSE "Manufacturer found in reference list but not located in Vietnam.")]

\* the fallback to the country fields if any declared country let the run go on
Step1FromCountryProceeding(manufacturer_country) ==
    [missing |-> <<>>,
     steps |-> <<[step |-> 1,
                  description |-> Fmt("No CSV match. Falling back to provided country '{}'.",
                                      manufacturer_country),
                  is_vietnamese |-> CountryIsVietnam(manufacturer_country), proceed |-> TRUE]>>,
     proceed |-> TRUE,
     reason |-> Fmt("Manufacturer country provided as '{}' (Vietnam).", manufacturer_country)]

\* step 1, the fallback to the country fields
Step1FromCountry(manufacturer_country) ==
    LET is_vn == CountryIsVietnam(manufacturer_country)
    IN  [missing |-> <<>>,
         steps |-> <<[step |-> 1,
                      description |-> Fmt("No CSV match. Falling back to provided country '{}'.",
                                          manufacturer_country),
                      is_vietnamese |-> is_vn, proceed |-> is_vn]>>,
         proceed |-> is_vn,
         reason |-> Fmt(IF is_vn THEN "Manufacturer country provided as '{}' (Vietnam)."
                        ELSE "Provided manufacturer country is '{}', not Vietnam.",
                        manufacturer_country)]

\* step 1, nothing found
Step1Unverified ==
    [missing |-> <<Field("manufacturer_country (or manufacturers.csv entry)")>>,
     steps |-> <<[step |-> 1,
                  description |-> Text("Manufacturer not found in CSV and no country provided; unable to confirm Vietnam."),
                  is_vietnamese |-> FALSE, proceed |-> FALSE]>>,
     proceed |-> FALSE,
     reason |-> Text("Manufacturer could not be verified (missing data).")]

\* Step1Outcome with the two checks in the other order: a declared country
\* overrides the reference list
Step1OutcomeDeclaredFirst(csv_result, manufacturer_country) ==
    IF manufacturer_country # <<>> THEN Step1FromCountry(manufacturer_country)
    ELSE IF csv_result.found THEN Step1FromCsv(csv_result)
    ELSE Step1Unverified

\* step 1 once a name or an identifier is known: the reference list, else the
\* country fields, else nothing
Step1Outcome(csv_result, manufacturer_country) ==
    IF csv_result.found THEN Step1FromCsv(csv_result)
    ELSE IF manufacturer_country # <<>> THEN Step1FromCountry(manufacturer_country)
    ELSE Step1Unverified

\* _step1_check_manufacturer(data, session) with the DataFrame df of the registry:
\* the manufacturer to store, what is appended to missing_fields and to
\* analysis_steps, and the result returned
step1_check_manufacturer(rows, df) ==
    LET manufacturer == ScanRows(rows, "manufacturer", <<>>)
        manufacturer_id == ScanRows(rows, "manufacturer_id", <<>>)
        declared == ScanRows(rows, "manufacturer_country", <<>>)
        manufacturer_country == IF declared # <<>> THEN declared ELSE CountryFallback(rows)
    IN  IF manufacturer = <<>> /\ manufacturer_id = <<>>
        THEN [manufacturer |-> <<>>, missing |-> <<Field("manufacturer")>>, steps |-> <<>>,
              proceed |-> FALSE, reason |-> Text("Manufacturer information missing")]
        ELSE LET out == Step1Outcome(lookup(df, manufacturer, manufacturer_id), manufacturer_country)
             IN  [manufacturer |-> manufacturer, missing |-> out.missing, steps |-> out.steps,
                  proceed |-> out.proceed, reason |-> out.reason]

\* the hs_codes list of step 2
RECURSIVE HsCodes(_)
HsCodes(rows) ==
    IF rows = <<>> THEN <<>>
    ELSE LET hs_code == IF HasText(Head(rows), "hs_code") THEN Strip(Head(rows)["hs_code"]) ELSE <<>>
             keep == hs_code # <<>> /\ Lower(hs_code) \notin {<<"n", "a", "n">>, <<"n", "o", "n", "e">>}
         IN  (IF keep THEN <<hs_code>> ELSE <<>>) \o HsCodes(Tail(rows))

\* step2_find_hs_code without the format check: any code found is stored
step2_unvalidated(rows) ==
    LET hs_codes == HsCodes(rows)
        final_hs_code == IF hs_codes # <<>> THEN hs_codes[1] ELSE <<>>
    IN  IF final_hs_code = <<>>
        THEN [stored |-> FALSE, missing |-> <<Field("final_product_hs_code")>>, steps |-> <<>>,
              proceed |-> FALSE, reason |-> Text("Final product HS code not found")]
        ELSE [stored |-> TRUE, final_hs_code |-> final_hs_code, missing |-> <<>>,
              steps |-> <<[step |-> 2, description |-> "Final product HS code identification",
                           final_hs_code |-> final_hs_code, is_valid |-> TRUE]>>,
              proceed |-> TRUE]

\* step2_find_hs_code taking the last HS code of the list instead of the first
step2_last_hs_code(rows) ==
    LET hs_codes == HsCodes(rows)
        final_hs_code == IF hs_codes # <<>> THEN hs_codes[Len(hs_codes)] ELSE <<>>
    IN  IF final_hs_code = <<>>
        THEN [stored |-> FALSE, missing |-> <<Field("final_product_hs_code")>>, steps |-> <<>>,
              proceed |-> FALSE, reason |-> Text("Final product HS code not found")]
        ELSE IF ~is_valid_hs_code(final_hs_code)
        THEN [stored |-> FALSE, missing |-> <<>>, steps |-> <<>>,
              proceed |-> FALSE, reason |-> Fmt("Invalid HS code format: {}", final_hs_code)]
        ELSE [stored |-> TRUE, final_hs_code |-> final_hs_code, missing |-> <<>>,
              steps |-> <<[step |-> 2, description |-> "Final product HS code identification",
                           final_hs_code |-> final_hs_code, is_valid |-> TRUE]>>,
              proceed |-> TRUE]

\* _step2_find_hs_code(data, session)
step2_find_hs_code(rows) ==
    LET hs_codes == HsCodes(rows)
        final_hs_code == IF hs_codes # <<>> THEN hs_codes[1] ELSE <<>>
    IN  IF final_hs_code = <<>>
        THEN [stored |-> FALSE, missing |-> <<Field("final_product_hs_code")>>, steps |-> <<>>,
              proceed |-> FALSE, reason |-> Text("Final product HS code not found")]
        ELSE IF ~is_valid_hs_code(final_hs_code)
        THEN [stored |-> FALSE, missing |-> <<>>, steps |-> <<>>,
              proceed |-> FALSE, reason |-> Fmt("Invalid HS code format: {}", final_hs_code)]
        ELSE [stored |-> TRUE, final_hs_code |-> final_hs_code, missing |-> <<>>,
              steps |-> <<[step |-> 2, description |-> "Final product HS code identification",
                           final_hs_code |-> final_hs_code, is_valid |-> TRUE]>>,
              proceed |-> TRUE]

\* step3_check_fta_rules with the guard inverted: the step records nothing
step3_skipped(table, s) ==
    IF "final_hs_code" \in DOMAIN s /\ s.final_hs_code # <<>> THEN <<>>
    ELSE <<[step |-> 3, description |-> "FTA rules of origin check",
            hs_code |-> <<>>, applicable_rules |-> get_rules_for_hs_code(table, <<>>)]>>

\* _step3_check_fta_rules(session): the entry appended, none without a final HS code
step3_check_fta_rules(table, s) ==
    IF "final_hs_code" \notin DOMAIN s \/ s.final_hs_code = <<>> THEN <<>>
    ELSE <<[step |-> 3, description |-> "FTA rules of origin check",
            hs_code |-> s.final_hs_code,
            applicable_rules |-> get_rules_for_hs_code(table, s.final_hs_code)]>>

eu_countries ==
    {<<"A", "T">>, <<"B", "E">>, <<"B", "G">>, <<"C", "Y">>, <<"C", "Z">>, <<"D", "E">>,
     <<"D", "K">>, <<"E", "E">>, <<"E", "S">>, <<"F", "I">>, <<"F", "R">>, <<"G", "R">>,
     <<"H", "R">>, <<"H", "U">>, <<"I", "E">>, <<"I", "T">>, <<"L", "T">>, <<"L", "U">>,
     <<"L", "V">>, <<"M", "T">>, <<"N", "L">>, <<"P", "L">>, <<"P", "T">>, <<"R", "O">>,
     <<"S", "E">>, <<"S", "I">>, <<"S", "K">>}

\* the row is screened in step 4: a country that is neither empty, VN nor EU
IsScreened(row) ==
    /\ "country_of_origin" \in DOMAIN row
    /\ LET country == Upper(Strip(row["country_of_origin"]))
       IN  /\ country \notin {<<>>, <<"N", "A", "N">>, <<"N", "O", "N", "E">>}
           /\ country \notin {<<"V", "N">>, <<"V", "I", "E", "T", "N", "A", "M">>}
           /\ country \notin eu_countries

\* row.get('cost_per_pair') is truthy: a non-zero number or a non-empty text
CostGiven(row) ==
    /\ "cost_per_pair" \in DOMAIN row
    /\ IF IsFloat(row["cost_per_pair"]) THEN row["cost_per_pair"].m # Zero4
       ELSE row["cost_per_pair"].text # <<>>

\* float(row.get('cost_per_pair', 0)) raises ValueError: a text that is no number
CostRaises(row) == CostGiven(row) /\ ~IsFloat(row["cost_per_pair"])

\* MaterialAnalysis(...) of step 4 for a screened row; cost_per_pair is NULL
\* (absent) when the row gives no cost
NewMaterial(row) ==
    LET base == [material_name |-> IF "material_name" \in DOMAIN row THEN row["material_name"]
                                   ELSE <<"U", "n", "k", "n", "o", "w", "n">>,
                 country_of_origin |-> Upper(Strip(row["country_of_origin"])),
                 hs_code |-> IF "hs_code" \in DOMAIN row THEN row["hs_code"] ELSE <<>>,
                 is_problematic |-> TRUE,
                 analysis_notes |-> <<"Non-VN and non-EU material requiring further analysis">>]
    IN  IF CostGiven(row) THEN SetField(base, "cost_per_pair", row["cost_per_pair"]) ELSE base

\* the loop of step 4 if a cost that is no number were stored as no cost
RECURSIVE ScreenRowsLenient(_, _, _)
ScreenRowsLenient(rows, i, added) ==
    IF i > Len(rows) THEN [materials |-> added, raised |-> 0]
    ELSE IF ~IsScreened(rows[i]) THEN ScreenRowsLenient(rows, i + 1, added)
    ELSE ScreenRowsLenient(rows, i + 1,
                           Append(added, NewMaterial([k \in DOMAIN rows[i] \ {"cost_per_pair"} |-> rows[i][k]])))

\* the loop of step 4: the materials added, and the row whose cost raised (0: none)
RECURSIVE ScreenRows(_, _, _)
ScreenRows(rows, i, added) ==
    IF i > Len(rows) THEN [materials |-> added, raised |-> 0]
    ELSE IF ~IsScreened(rows[i]) THEN ScreenRows(rows, i + 1, added)
    ELSE IF CostRaises(rows[i]) THEN [materials |-> added, raised |-> i]
    ELSE ScreenRows(rows, i + 1, Append(added, NewMaterial(rows[i])))

\* the entry _step4_identify_materials appends
Step4Entry(found) ==
    [step |-> 4, description |-> "Non-VN and non-EU materials identification",
     materials_found |-> Len(found),
     materials |-> [i \in DOMAIN found |-> [name |-> found[i].material_name,
                                            country |-> found[i].country_of_origin,
                                            hs_code |-> found[i].hs_code]]]

\* the loop of step 5 on one material: the note appended
Step5Note(m) ==
    IF m.hs_code # <<>>
    THEN IF is_valid_hs_code(m.hs_code) THEN " | HS code {} validated" ELSE " | Invalid HS code: {}"
    ELSE " | Missing HS code"

\* the loop of step 5 if only a missing HS code were flagged
Step5MissingOnlyAbsent(m) ==
    IF m.hs_code # <<>> THEN <<>> ELSE <<FieldFor("hs_code_for_", m.material_name)>>

\* the loop of step 5 on one material: what is appended to missing_fields
Step5Missing(m) ==
    IF m.hs_code # <<>>
    THEN IF is_valid_hs_code(m.hs_code) THEN <<>>
         ELSE <<FieldFor("valid_hs_code_for_", m.material_name)>>
    ELSE <<FieldFor("hs_code_for_", m.material_name)>>

RECURSIVE Step5MissingAll(_)
Step5MissingAll(ms) ==
    IF ms = <<>> THEN <<>> ELSE Step5Missing(Head(ms)) \o Step5MissingAll(Tail(ms))

\* material.hs_code.startswith('6406') / hs_code LIKE '6406%'
Is6406(m) == m.hs_code # <<>> /\ StartsWith(m.hs_code, Key6406)

\* has_6406 if step 6 counted every problematic material
Has6406AnyMaterial(ms) == \E i \in DOMAIN ms : ms[i].is_problematic

\* has_6406 of step 6
Has6406(ms) == \E i \in DOMAIN ms : ms[i].is_problematic /\ Is6406(ms[i])

\* CostLoop that adds every cost to the 6406 sum
RECURSIVE CostLoopAllCritical(_, _, _)
CostLoopAllCritical(ms, i, acc) ==
    IF i > Len(ms) THEN acc
    ELSE LET m == ms[i]
         IN  IF "cost_per_pair" \in DOMAIN m
             THEN CostLoopAllCritical(ms, i + 1,
                           [materials_6406_cost |-> FAdd(acc.materials_6406_cost, m.cost_per_pair),
                            total_cost |-> FAdd(acc.total_cost, m.cost_per_pair),
                            missing_cost_data |-> acc.missing_cost_data])
             ELSE CostLoopAllCritical(ms, i + 1,
                           [materials_6406_cost |-> acc.materials_6406_cost,
                            total_cost |-> acc.total_cost,
                            missing_cost_data |-> Append(acc.missing_cost_data, m.material_name)])

\* the loop of step 7: the two sums and the names without cost
RECURSIVE CostLoop(_, _, _)
CostLoop(ms, i, acc) ==
    IF i > Len(ms) THEN acc
    ELSE LET m == ms[i]
         IN  IF "cost_per_pair" \in DOMAIN m
             THEN CostLoop(ms, i + 1,
                           [materials_6406_cost |-> IF m.is_problematic /\ Is6406(m)
                                                    THEN FAdd(acc.materials_6406_cost, m.cost_per_pair)
                                                    ELSE acc.materials_6406_cost,
                            total_cost |-> FAdd(acc.total_cost, m.cost_per_pair),
                            missing_cost_data |-> acc.missing_cost_data])
             ELSE CostLoop(ms, i + 1,
                           [materials_6406_cost |-> acc.materials_6406_cost,
                            total_cost |-> acc.total_cost,
                            missing_cost_data |-> Append(acc.missing_cost_data, m.material_name)])

\* percentage <= 10
ThresholdMet(percentage) == FLeq(percentage, FromInt(10))

\* _step7_cost_analysis if a total of 0 counted as a share of 100 %
step7_zero_total_is_all(ms) ==
    LET sums == CostLoop(ms, 1, [materials_6406_cost |-> FZero, total_cost |-> FZero,
                                 missing_cost_data |-> <<>>])
        percentage == IF FLess(FZero, sums.total_cost)
                      THEN FMulInt(FDiv(sums.materials_6406_cost, sums.total_cost), 100)
                      ELSE FromInt(100)
    IN  [step |-> 7, description |-> "Cost percentage analysis",
         materials_6406_cost |-> sums.materials_6406_cost,
         total_cost |-> sums.total_cost,
         percentage |-> percentage,
         threshold_met |-> ThresholdMet(percentage),
         missing_cost_data |-> sums.missing_cost_data]

\* the step_result of _step7_cost_analysis(session)
step7_cost_analysis(ms) ==
    LET sums == CostLoop(ms, 1, [materials_6406_cost |-> FZero, total_cost |-> FZero,
                                 missing_cost_data |-> <<>>])
        percentage == IF FLess(FZero, sums.total_cost)
                      THEN FMulInt(FDiv(sums.materials_6406_cost, sums.total_cost), 100)
                      ELSE FZero
    IN  [step |-> 7, description |-> "Cost percentage analysis",
         materials_6406_cost |-> sums.materials_6406_cost,
         total_cost |-> sums.total_cost,
         percentage |-> percentage,
         threshold_met |-> ThresholdMet(percentage),
         missing_cost_data |-> sums.missing_cost_data]

\* the final determination of analyze_origin after step 7
FinalDetermination(cost_result) ==
    IF ThresholdMet(cost_result.percentage)
    THEN [result |-> "originating",
          reason |-> Fmt("Materials under heading 6406 represent {:.2f}% of total cost (<=10%)",
                         cost_result.percentage)]
    ELSE [result |-> "non_originating",
          reason |-> Fmt("Materials under heading 6406 represent {:.2f}% of total cost (>10%)",
                         cost_result.percentage)]

\* ------------------------------------------------------------------------
\* _finalize_analysis
\* ------------------------------------------------------------------------
\* what the enrichment of _finalize_analysis may do: the attempt raises and is
\* swallowed, or else generate_origin_explanation returns the backend's text,
\* the template or nothing, and generate_missing_data_analysis a text or nothing
EnrichOutcomes ==
    {[raised |-> TRUE, explanation |-> "nothing", analysis |-> "nothing"]} \cup
    [raised : {FALSE}, explanation : {"live", "fallback", "nothing"}, analysis : {"live", "nothing"}]

\* _finalize_analysis if a failing enrichment were turned into the verdict
EnrichedOrError(s, missing, outcome) ==
    IF outcome.raised
    THEN SetField(SetField(s, "final_result", "error"), "gemini_explanation", "fallback")
    ELSE LET explained == IF outcome.explanation # "nothing"
                          THEN SetField(s, "gemini_explanation", outcome.explanation)
                          ELSE s
         IN  IF missing # <<>> /\ outcome.analysis # "nothing"
             THEN SetField(explained, "missing_data_analysis", outcome.analysis)
             ELSE explained

\* the explanation fields _finalize_analysis sets
Enriched(s, missing, outcome) ==
    IF outcome.raised THEN s
    ELSE LET explained == IF outcome.explanation # "nothing"
                          THEN SetField(s, "gemini_explanation", outcome.explanation)
                          ELSE s
         IN  IF missing # <<>> /\ outcome.analysis # "nothing"
             THEN SetField(explained, "missing_data_analysis", outcome.analysis)
             ELSE explained

\* finalize_fields without the completion flag
finalize_fields_uncompleted(s, result, reason, missing) ==
    SetField(SetField(SetField(s, "final_result", result), "result_reason", reason),
             "missing_fields", missing)

\* the four assignments that open _finalize_analysis
finalize_fields(s, result, reason, missing) ==
    SetField(SetField(SetField(SetField(s, "final_result", result), "result_reason", reason),
                      "missing_fields", missing),
             "completed", TRUE)

\* ------------------------------------------------------------------------
\* The request: upload_file, then analyze_origin step by step
\* ------------------------------------------------------------------------
\* upload_file has stored the new AnalysisSession; process_file is about to run
\* the DataFrame load() caches for config/manufacturers.csv
Registry == load(ManufacturersCsv)

\* the reference files as deployed
DeployedFiles == [csv |-> ManufacturersCsv, other_csv |-> OtherCsv,
                  agreement |-> [exists |-> TRUE, json |-> AgreementJson],
                  fta_rules |-> [exists |-> FALSE]]

\* no enrichment attempted yet; nothing cached; no engine built; no call made
NotEnriched == [raised |-> FALSE, explanation |-> "none", analysis |-> "none"]
EmptyCache == [loaded |-> FALSE]
NotSeen == [known |-> FALSE]
NoEngine == [built |-> FALSE]
NoCall == [op |-> "none"]

\* nothing in the upload folder, no concurrent requests
NoUploads == folder = <<>> /\ requests = <<>>

\* what a reader of the database sees after a commit
Snapshot(s, ms) == [session |-> s, materials |-> ms]

Init ==
    /\ data \in Inputs
    /\ fta_rules \in RuleTables
    /\ session = [completed |-> FALSE]
    /\ materials = <<>>
    /\ analysis_steps = <<>>
    /\ missing_fields = <<>>
    /\ verdict = <<>>
    /\ pc = "process_file"
    /\ commits = <<Snapshot(session, materials)>>
    /\ enrichment = NotEnriched
    /\ files = [DeployedFiles EXCEPT !.agreement = IF fta_rules = AgreementJson THEN @ ELSE NoFile]
    /\ cache = EmptyCache
    /\ stale = FALSE
    /\ seen = NotSeen
    /\ engine = NoEngine
    /\ ret = NoCall
    /\ NoUploads

\* session.analysis_steps = self.analysis_steps after an append
Recorded(s, steps) == SetField(s, "analysis_steps", steps)

\* upload_file: no rows, no analysis; else OriginAnalyzer() and analyze_origin
process_file ==
    /\ pc = "process_file"
    /\ pc' = IF data = <<>> THEN "aborted" ELSE "step1"
    /\ commits' = <<>>
    /\ UNCHANGED <<data, fta_rules, session, materials, analysis_steps, missing_fields, verdict>>
    /\ UNCHANGED enrichment
    /\ UNCHANGED <<serviceVars, uploadVars>>

Step1 ==
    /\ pc = "step1"
    /\ LET r == step1_check_manufacturer(data, Registry)
           named == IF r.manufacturer # <<>> THEN SetField(session, "manufacturer", r.manufacturer)
                    ELSE session
       IN  /\ analysis_steps' = analysis_steps \o r.steps
           /\ missing_fields' = missing_fields \o r.missing
           /\ session' = IF r.steps # <<>> THEN Recorded(named, analysis_steps') ELSE named
           /\ commits' = IF r.steps # <<>> THEN <<Snapshot(session', materials)>> ELSE <<>>
           /\ IF r.proceed
              THEN pc' = "step2" /\ UNCHANGED verdict
              ELSE pc' = "finalize" /\ verdict' = [result |-> "non_originating", reason |-> r.reason]
    /\ UNCHANGED <<data, fta_rules, materials>>
    /\ UNCHANGED enrichment
    /\ UNCHANGED <<serviceVars, uploadVars>>

Step2 ==
    /\ pc = "step2"
    /\ LET r == step2_find_hs_code(data)
       IN  /\ analysis_steps' = analysis_steps \o r.steps
           /\ missing_fields' = missing_fields \o r.missing
           /\ session' = IF r.stored
                         THEN Recorded(SetField(session, "final_hs_code", r.final_hs_code), analysis_steps')
                         ELSE session
           /\ commits' = IF r.stored THEN <<Snapshot(session', materials)>> ELSE <<>>
           /\ IF r.proceed
              THEN pc' = "step3" /\ UNCHANGED verdict
              ELSE pc' = "finalize" /\ verdict' = [result |-> "incomplete", reason |-> r.reason]
    /\ UNCHANGED <<data, fta_rules, materials>>
    /\ UNCHANGED enrichment
    /\ UNCHANGED <<serviceVars, uploadVars>>

Step3 ==
    /\ pc = "step3"
    /\ LET entries == step3_check_fta_rules(fta_rules, session)
       IN  /\ analysis_steps' = analysis_steps \o entries
           /\ session' = IF entries # <<>> THEN Recorded(session, analysis_steps') ELSE session
           /\ commits' = IF entries # <<>> THEN <<Snapshot(session', materials)>> ELSE <<>>
    /\ pc' = "step4"
    /\ UNCHANGED <<data, fta_rules, materials, missing_fields, verdict>>
    /\ UNCHANGED enrichment
    /\ UNCHANGED <<serviceVars, uploadVars>>

\* step 4; a cost that is no number raises in the loop, the rows added before
\* it stay in the database session and are stored by the commit of finalization
Step4 ==
    /\ pc = "step4"
    /\ LET r == ScreenRows(data, 1, <<>>)
       IN  /\ materials' = materials \o r.materials
           /\ IF r.raised = 0
              THEN /\ analysis_steps' = Append(analysis_steps, Step4Entry(r.materials))
                   /\ session' = Recorded(session, analysis_steps')
                   /\ commits' = <<Snapshot(session, materials'), Snapshot(session', materials')>>
                   /\ pc' = "step5"
                   /\ UNCHANGED verdict
              ELSE /\ verdict' = [result |-> "error",
                                  reason |-> Fmt("Analysis error: could not convert string to float: '{}'",
                                                 data[r.raised]["cost_per_pair"].text)]
                   /\ commits' = <<>>
                   /\ pc' = "finalize"
                   /\ UNCHANGED <<analysis_steps, session>>
    /\ UNCHANGED <<data, fta_rules, missing_fields>>
    /\ UNCHANGED enrichment
    /\ UNCHANGED <<serviceVars, uploadVars>>

Step5 ==
    /\ pc = "step5"
    /\ materials' = [i \in DOMAIN materials |->
                       IF materials[i].is_problematic
                       THEN [materials[i] EXCEPT !.analysis_notes = Append(@, Step5Note(materials[i]))]
                       ELSE materials[i]]
    /\ missing_fields' = missing_fields \o Step5MissingAll(SelectSeq(materials, LAMBDA m : m.is_problematic))
    /\ analysis_steps' = Append(analysis_steps,
                                [step |-> 5, description |-> "HS codes validation for problematic materials",
                                 materials_checked |-> Len(SelectSeq(materials, LAMBDA m : m.is_problematic))])
    /\ session' = Recorded(session, analysis_steps')
    /\ commits' = <<Snapshot(session, materials'), Snapshot(session', materials')>>
    /\ pc' = "step6"
    /\ UNCHANGED <<data, fta_rules, verdict>>
    /\ UNCHANGED enrichment
    /\ UNCHANGED <<serviceVars, uploadVars>>

Step6 ==
    /\ pc = "step6"
    /\ materials' = [i \in DOMAIN materials |->
                       IF materials[i].is_problematic /\ Is6406(materials[i])
                       THEN [materials[i] EXCEPT !.analysis_notes = Append(@, " | Falls under heading 6406")]
                       ELSE materials[i]]
    /\ analysis_steps' = Append(analysis_steps,
                                [step |-> 6, description |-> "Heading 6406 check",
                                 materials_in_6406 |-> Len(SelectSeq(materials,
                                                             LAMBDA m : m.is_problematic /\ Is6406(m)))])
    /\ session' = Recorded(session, analysis_steps')
    /\ commits' = <<Snapshot(session, materials'), Snapshot(session', materials')>>
    /\ IF Has6406(materials)
       THEN pc' = "step7" /\ UNCHANGED verdict
       ELSE /\ pc' = "finalize"
            /\ verdict' = [result |-> "originating", reason |-> Text("No materials under heading 6406 found")]
    /\ UNCHANGED <<data, fta_rules, missing_fields>>
    /\ UNCHANGED enrichment
    /\ UNCHANGED <<serviceVars, uploadVars>>

\* step 7 and the final determination
Step7 ==
    /\ pc = "step7"
    /\ LET cost_result == step7_cost_analysis(materials)
       IN  /\ missing_fields' = missing_fields \o
                                [i \in DOMAIN cost_result.missing_cost_data |->
                                   FieldFor("cost_per_pair_for_", cost_result.missing_cost_data[i])]
           /\ analysis_steps' = Append(analysis_steps, cost_result)
           /\ session' = Recorded(session, analysis_steps')
           /\ verdict' = FinalDetermination(cost_result)
           /\ commits' = <<Snapshot(session', materials)>>
    /\ pc' = "finalize"
    /\ UNCHANGED <<data, fta_rules, materials>>
    /\ UNCHANGED enrichment
    /\ UNCHANGED <<serviceVars, uploadVars>>

\* get_analysis_status: the JSON the status route builds from the stored row
get_analysis_status(s) ==
    LET get(k) == IF k \in DOMAIN s THEN s[k] ELSE "null"
    IN  [completed |-> s.completed, steps |-> get("analysis_steps"), result |-> get("final_result"),
         reason |-> get("result_reason"), missing_fields |-> get("missing_fields")]

\* the enrichment attempt of one finalization: its outcome, how often each
\* service method is called, the session object at the time of the calls, and
\* what the status route returns while they run (the row as last committed:
\* the commit of _finalize_analysis follows the calls)
EnrichmentAttempt(outcome, stored, finalized, missing) ==
    [raised |-> outcome.raised, explanation |-> outcome.explanation, analysis |-> outcome.analysis,
     explanation_calls |-> 1,
     analysis_calls |-> IF ~outcome.raised /\ missing # <<>> THEN 1 ELSE 0,
     in_memory |-> finalized,
     status |-> get_analysis_status(stored)]

Finalize ==
    /\ pc = "finalize"
    /\ \E outcome \in EnrichOutcomes :
          /\ session' = Enriched(finalize_fields(session, verdict.result, verdict.reason, missing_fields),
                                 missing_fields, outcome)
          /\ enrichment' = EnrichmentAttempt(outcome, session,
                                             finalize_fields(session, verdict.result, verdict.reason,
                                                             missing_fields),
                                             missing_fields)
    /\ commits' = <<Snapshot(session', materials)>>
    /\ pc' = "done"
    /\ UNCHANGED <<data, fta_rules, materials, analysis_steps, missing_fields, verdict>>
    /\ UNCHANGED <<serviceVars, uploadVars>>

Next ==
    \/ process_file
    \/ Step1
    \/ Step2
    \/ Step3
    \/ Step4
    \/ Step5
    \/ Step6
    \/ Step7
    \/ Finalize

Spec == Init /\ [][Next]_vars

\* the request handler runs to its end: no step of upload_file is cancelled
\* or waits for anything
LiveSpec == Init /\ [][Next]_vars /\ WF_vars(Next)

\* _finalize_analysis when db.session.commit() raises: the assignments and the
\* enrichment are done on the session object, nothing is stored. Inside the try
\* block of analyze_origin the except clause then calls _finalize_analysis
\* again with 'error'; in the except clause itself the exception leaves
\* analyze_origin and upload_file reports it
CommitError == <<"c", "o", "m", "m", "i", "t">>

FinalizeCommitRaises ==
    /\ pc = "finalize"
    /\ \E outcome \in EnrichOutcomes :
          /\ session' = Enriched(finalize_fields(session, verdict.result, verdict.reason, missing_fields),
                                 missing_fields, outcome)
          /\ enrichment' = EnrichmentAttempt(outcome, session,
                                             finalize_fields(session, verdict.result, verdict.reason,
                                                             missing_fields),
                                             missing_fields)
    /\ commits' = <<>>
    /\ IF verdict.result = "error"
       THEN pc' = "failed" /\ UNCHANGED verdict
       ELSE pc' = "finalize" /\ verdict' = [result |-> "error", reason |-> Fmt("Analysis error: {}", CommitError)]
    /\ UNCHANGED <<data, fta_rules, materials, analysis_steps, missing_fields>>
    /\ UNCHANGED <<serviceVars, uploadVars>>

FaultNext == Next \/ FinalizeCommitRaises

\* one analysis run in which the commit of a finalization may fail
FaultSpec == Init /\ [][FaultNext]_vars

\* ------------------------------------------------------------------------
\* The service functions, called on their own
\* ------------------------------------------------------------------------
\* no analysis is running
NoAnalysis ==
    /\ data = <<>>
    /\ fta_rules = get_default_rules
    /\ session = [completed |-> FALSE]
    /\ materials = <<>>
    /\ analysis_steps = <<>>
    /\ missing_fields = <<>>
    /\ verdict = <<>>
    /\ pc = "idle"
    /\ commits = <<>>
    /\ enrichment = NotEnriched

\* the codes handed to is_valid_hs_code: up to MaxDigits digits, plain, with a
\* space, with a dot, with a newline or a letter at the end, or with a sign
MaxDigits == 11
DigitRun == <<"6", "4", "0", "6", "1", "0", "9", "0", "1", "2", "3", "4", "5">>
Decorations == {"plain", "spaced", "dotted", "newline", "letter", "signed"}

Decorated(code, d) ==
    CASE d = "plain" -> code
      [] d = "spaced" -> IF Len(code) >= 2
                         THEN SubSeq(code, 1, 2) \o <<" ">> \o SubSeq(code, 3, Len(code))
                         ELSE code \o <<" ">>
      [] d = "dotted" -> IF Len(code) >= 4
                         THEN SubSeq(code, 1, 4) \o <<".">> \o SubSeq(code, 5, Len(code))
                         ELSE code \o <<".">>
      [] d = "newline" -> code \o <<"\n">>
      [] d = "letter" -> code \o <<"A">>
      [] d = "signed" -> <<"-">> \o code

HsInputs == {Decorated(SubSeq(DigitRun, 1, n), d) : n \in 0..MaxDigits, d \in Decorations}

\* config/agreement.json without a default entry, with a key for one full code
NoDefaultJson ==
    (Key6406 :> [description |-> "Parts of footwear", rules |-> <<"Ex-works price rule">>,
                 threshold |-> FromInt(20)])
    @@ (HsSole :> [description |-> "Outer soles and heels", rules |-> <<"Change of heading">>])

\* config/fta_rules.json, the file tried second
LegacyJson ==
    (KeyDefault :> [description |-> "Legacy general rules", rules |-> <<"Wholly obtained">>])

AgreementFiles == {NoFile, [exists |-> TRUE, json |-> AgreementJson],
                   [exists |-> TRUE, json |-> NoDefaultJson]}
LegacyFiles == {NoFile, [exists |-> TRUE, json |-> LegacyJson]}

\* _load_fta_rules: agreement.json, else fta_rules.json, else the built-in table
load_fta_rules(fs) ==
    IF fs.agreement.exists THEN fs.agreement.json
    ELSE IF fs.fta_rules.exists THEN fs.fta_rules.json
    ELSE get_default_rules

\* the codes handed to get_rules_for_hs_code
RuleQueries ==
    {<<>>, HsSole, HsStrap, Key6406, KeyDefault,
     <<"6", "4", "0", "6", ".", "1", "0">>, <<"6", "4", "0", "6", " ", "9", "0">>,
     <<"6", "4", "0">>}

\* what client.models.generate_content does: it raises, or it returns a
\* response whose text is None or a string
BackendReplies ==
    {[kind |-> "raises"], [kind |-> "none"]} \cup
    {[kind |-> "text", text |-> t] :
        t \in {<<>>, <<" ", "\n">>, <<" ", "O", "r", "i", "g", "i", "n", "a", "t", "i", "n", "g", ".", "\n">>}}

\* the missing-field lists and the session_data dictionaries handed to the service
MissingLists == {<<>>, <<Field("manufacturer")>>, <<Field("final_product_hs_code"), Field("manufacturer")>>}
SessionDatas ==
    {[final_result |-> "originating", manufacturer |-> <<"A", "C", "M", "E">>,
      result_reason |-> Text("No materials under heading 6406 found"), missing_fields |-> <<>>],
     [final_result |-> "non_originating",
      result_reason |-> Text("Manufacturer information missing"),
      missing_fields |-> <<Field("manufacturer")>>],
     [manufacturer |-> <<"A", "C", "M", "E">>]}

\* _generate_fallback_explanation: the template, given by the values that
\* fill its slots; the paragraph on data quality appears with missing fields only
generate_fallback_explanation(session_data) ==
    LET get(k, d) == IF k \in DOMAIN session_data THEN session_data[k] ELSE d
    IN  [kind |-> "template",
         final_result |-> get("final_result", "incomplete"),
         result_reason |-> get("result_reason", Text("Analysis could not be completed")),
         manufacturer |-> get("manufacturer", <<"N", "o", "t", " ", "i", "d", "e", "n", "t", "i", "f", "i", "e", "d">>),
         data_quality |-> get("missing_fields", <<>>)]

\* the try block of generate_origin_explanation: one backend call
ExplanationAttempt(reply, session_data) ==
    IF reply.kind = "raises" THEN [raised |-> TRUE, calls |-> 1]
    ELSE IF reply.kind = "text" /\ reply.text # <<>>
         THEN [raised |-> FALSE, calls |-> 1, value |-> [kind |-> "text", text |-> Strip(reply.text)]]
         ELSE [raised |-> FALSE, calls |-> 1, value |-> generate_fallback_explanation(session_data)]

\* generate_origin_explanation without its except clause
generate_origin_explanation_uncaught(available, reply, session_data) ==
    IF ~available
    THEN [raised |-> FALSE, calls |-> 0, value |-> generate_fallback_explanation(session_data)]
    ELSE ExplanationAttempt(reply, session_data)

\* generate_origin_explanation: what it returns, whether it raises, and the
\* number of backend calls it makes
generate_origin_explanation(available, reply, session_data) ==
    IF ~available
    THEN [raised |-> FALSE, calls |-> 0, value |-> generate_fallback_explanation(session_data)]
    ELSE LET attempt == ExplanationAttempt(reply, session_data)
         IN  IF attempt.raised
             THEN [raised |-> FALSE, calls |-> attempt.calls,
                   value |-> generate_fallback_explanation(session_data)]
             ELSE attempt

\* generate_missing_data_analysis
generate_missing_data_analysis(available, reply, missing) ==
    IF ~available \/ missing = <<>>
    THEN [raised |-> FALSE, calls |-> 0, value |-> [kind |-> "none"]]
    ELSE IF reply.kind = "text" /\ reply.text # <<>>
         THEN [raised |-> FALSE, calls |-> 1, value |-> [kind |-> "text", text |-> Strip(reply.text)]]
         ELSE [raised |-> FALSE, calls |-> 1, value |-> [kind |-> "none"]]

ServiceInit ==
    /\ NoAnalysis
    /\ files \in [csv : {ManufacturersCsv}, other_csv : {OtherCsv},
                   agreement : AgreementFiles, fta_rules : LegacyFiles]
    /\ cache = EmptyCache
    /\ stale = FALSE
    /\ seen = NotSeen
    /\ engine = NoEngine
    /\ ret = NoCall
    /\ NoUploads

\* HSCodeService().is_valid_hs_code(code)
Validate ==
    /\ \E code \in HsInputs :
          ret' = [op |-> "is_valid_hs_code", args |-> code, value |-> is_valid_hs_code(code)]
    /\ UNCHANGED <<files, cache, stale, seen, engine>>
    /\ UNCHANGED <<analysisVars, uploadVars>>

\* FTARulesEngine(): the table is read when the engine is constructed
NewEngine ==
    /\ engine' = [built |-> TRUE, fta_rules |-> load_fta_rules(files)]
    /\ UNCHANGED <<files, cache, stale, seen, ret>>
    /\ UNCHANGED <<analysisVars, uploadVars>>

\* engine.get_rules_for_hs_code(code)
GetRules ==
    /\ engine.built
    /\ \E code \in RuleQueries :
          ret' = [op |-> "get_rules_for_hs_code", args |-> code, on |-> engine.fta_rules,
                  value |-> get_rules_for_hs_code(engine.fta_rules, code)]
    /\ UNCHANGED <<files, cache, stale, seen, engine>>
    /\ UNCHANGED <<analysisVars, uploadVars>>

\* GeminiExplanationService().generate_origin_explanation(session_data, materials_data)
Explain ==
    /\ \E available \in BOOLEAN, reply \in BackendReplies, session_data \in SessionDatas :
          ret' = [op |-> "generate_origin_explanation",
                  args |-> [available |-> available, reply |-> reply, session_data |-> session_data],
                  value |-> generate_origin_explanation(available, reply, session_data)]
    /\ UNCHANGED <<files, cache, stale, seen, engine>>
    /\ UNCHANGED <<analysisVars, uploadVars>>

\* GeminiExplanationService().generate_missing_data_analysis(missing_fields, materials_data)
AnalyseMissing ==
    /\ \E available \in BOOLEAN, reply \in BackendReplies, missing \in MissingLists :
          ret' = [op |-> "generate_missing_data_analysis",
                  args |-> [available |-> available, reply |-> reply, missing_fields |-> missing],
                  value |-> generate_missing_data_analysis(available, reply, missing)]
    /\ UNCHANGED <<files, cache, stale, seen, engine>>
    /\ UNCHANGED <<analysisVars, uploadVars>>

ServiceNext ==
    \/ Validate
    \/ NewEngine
    \/ GetRules
    \/ Explain
    \/ AnalyseMissing

ServiceSpec == ServiceInit /\ [][ServiceNext]_vars

\* ------------------------------------------------------------------------
\* The manufacturer registry behind its cache
\* ------------------------------------------------------------------------
\* the contents config/manufacturers.csv may have
CsvFiles == {NoFile, ManufacturersCsv, RelocatedCsv}

\* load(path) behind lru_cache(maxsize=1): the cache after the call; its entry
\* is reused for the same path and replaced for another
CachedLoad(c, fs, path) ==
    IF c.loaded /\ c.path = path THEN c
    ELSE [loaded |-> TRUE, path |-> path, table |-> load(fs[path])]

\* the table the lookups began with, once the first of them has read it
FirstSeen(s, table) == IF s.known THEN s ELSE [known |-> TRUE, table |-> table]

\* load.cache_clear() without effect
cache_clear_kept(c) == c

\* load.cache_clear()
cache_clear(c) == EmptyCache

\* the (name, manufacturer_id) pairs handed to lookup
QueryNames == {<<>>, <<" ", "a", "c", "m", "e", " ">>, <<"G", "L", "O", "B", "E", "X">>, Nobody}
QueryIds == {<<>>, <<" ", "m", "f", "g", "-", "0", "0", "1">>,
             <<"M", "F", "G", "-", "0", "0", "2">>, Unlisted}
Queries == [name : QueryNames, id : QueryIds]

\* the rows handed to step 1 on its own
Lace == [material_name |-> <<"L", "a", "c", "e">>, country_of_origin |-> <<"V", "N">>,
         hs_code |-> HsSole, cost_per_pair |-> Cents(900)]
Step1Rows == {<<m>> : m \in ManufacturerRows} \cup {<<m, Lace>> : m \in ManufacturerRows}

RegistryInit ==
    /\ NoAnalysis
    /\ files = DeployedFiles
    /\ cache = EmptyCache
    /\ stale = FALSE
    /\ seen = NotSeen
    /\ engine = NoEngine
    /\ ret = NoCall
    /\ NoUploads

\* manufacturers.lookup(name, manufacturer_id)
Lookup ==
    /\ \E q \in Queries :
          /\ cache' = CachedLoad(cache, files, "csv")
          /\ ret' = [op |-> "lookup", args |-> q, on |-> cache'.table,
                     value |-> lookup(cache'.table, q.name, q.id)]
    /\ seen' = FirstSeen(seen, cache'.table)
    /\ UNCHANGED <<files, stale, engine>>
    /\ UNCHANGED <<analysisVars, uploadVars>>

\* manufacturers.load(path) with another path, as the sanity script calls it
LoadPath ==
    /\ cache' = CachedLoad(cache, files, "other_csv")
    /\ ret' = [op |-> "load", args |-> "other_csv", value |-> cache'.table]
    /\ UNCHANGED <<files, stale, seen, engine>>
    /\ UNCHANGED <<analysisVars, uploadVars>>

\* manufacturers.load.cache_clear()
CacheClear ==
    /\ cache' = cache_clear(cache)
    /\ stale' = FALSE
    /\ seen' = NotSeen
    /\ UNCHANGED <<files, engine, ret>>
    /\ UNCHANGED <<analysisVars, uploadVars>>

\* somebody edits, removes or restores config/manufacturers.csv
RewriteCsv ==
    /\ \E f \in CsvFiles \ {files.csv} : files' = [files EXCEPT !.csv = f]
    /\ stale' = TRUE
    /\ UNCHANGED <<cache, seen, engine, ret>>
    /\ UNCHANGED <<analysisVars, uploadVars>>

\* step 1 of an analysis, which looks the manufacturer up through the cache
CheckManufacturer ==
    /\ \E rows \in Step1Rows :
          LET looked_up == step1_check_manufacturer(rows, <<>>).reason
                              # Text("Manufacturer information missing")
              table == CachedLoad(cache, files, "csv").table
          IN  /\ cache' = IF looked_up THEN CachedLoad(cache, files, "csv") ELSE cache
              /\ seen' = IF looked_up THEN FirstSeen(seen, table) ELSE seen
              /\ ret' = [op |-> "step1", args |-> rows, on |-> table,
                         value |-> step1_check_manufacturer(rows, table)]
    /\ UNCHANGED <<files, stale, engine>>
    /\ UNCHANGED <<analysisVars, uploadVars>>

\* somebody edits, removes or restores config/agreement.json
RewriteRules ==
    /\ \E f \in AgreementFiles \ {files.agreement} : files' = [files EXCEPT !.agreement = f]
    /\ UNCHANGED <<cache, stale, seen, engine, ret>>
    /\ UNCHANGED <<analysisVars, uploadVars>>

RegistryNext ==
    \/ Lookup
    \/ LoadPath
    \/ CacheClear
    \/ RewriteCsv
    \/ CheckManufacturer
    \/ RewriteRules
    \/ NewEngine

RegistrySpec == RegistryInit /\ [][RegistryNext]_vars

\* ------------------------------------------------------------------------
\* Two uploads handled concurrently
\* ------------------------------------------------------------------------
\* analyze_origin as a function of the rows, the manufacturer table and the
\* rule table: what the case holds when the call returns
Outcome(result, reason, steps, missing, ms) ==
    [final_result |-> result, result_reason |-> reason, analysis_steps |-> steps,
     missing_fields |-> missing, materials |-> ms]

AfterStep4(steps, missing, ms) ==
    LET problematic == SelectSeq(ms, LAMBDA m : m.is_problematic)
        ms5 == [i \in DOMAIN ms |->
                  IF ms[i].is_problematic
                  THEN [ms[i] EXCEPT !.analysis_notes = Append(@, Step5Note(ms[i]))]
                  ELSE ms[i]]
        ms6 == [i \in DOMAIN ms5 |->
                  IF ms5[i].is_problematic /\ Is6406(ms5[i])
                  THEN [ms5[i] EXCEPT !.analysis_notes = Append(@, " | Falls under heading 6406")]
                  ELSE ms5[i]]
        steps6 == steps \o <<Step4Entry(ms),
                             [step |-> 5, description |-> "HS codes validation for problematic materials",
                              materials_checked |-> Len(problematic)],
                             [step |-> 6, description |-> "Heading 6406 check",
                              materials_in_6406 |-> Len(SelectSeq(problematic, Is6406))]>>
        missing5 == missing \o Step5MissingAll(problematic)
    IN  IF ~Has6406(ms5)
        THEN Outcome("originating", Text("No materials under heading 6406 found"), steps6, missing5, ms6)
        ELSE LET cost_result == step7_cost_analysis(ms6)
                 final == FinalDetermination(cost_result)
             IN  Outcome(final.result, final.reason, Append(steps6, cost_result),
                         missing5 \o [i \in DOMAIN cost_result.missing_cost_data |->
                                        FieldFor("cost_per_pair_for_", cost_result.missing_cost_data[i])],
                         ms6)

analyze_origin(rows, df, table) ==
    LET r1 == step1_check_manufacturer(rows, df)
        r2 == step2_find_hs_code(rows)
        r4 == ScreenRows(rows, 1, <<>>)
    IN  IF ~r1.proceed
        THEN Outcome("non_originating", r1.reason, r1.steps, r1.missing, <<>>)
        ELSE IF ~r2.proceed
        THEN Outcome("incomplete", r2.reason, r1.steps \o r2.steps, r1.missing \o r2.missing, <<>>)
        ELSE LET steps3 == r1.steps \o r2.steps
                             \o step3_check_fta_rules(table, [final_hs_code |-> r2.final_hs_code])
                 missing2 == r1.missing \o r2.missing
             IN  IF r4.raised # 0
                 THEN Outcome("error",
                              Fmt("Analysis error: could not convert string to float: '{}'",
                                  rows[r4.raised]["cost_per_pair"].text),
                              steps3, missing2, r4.materials)
                 ELSE AfterStep4(steps3, missing2, r4.materials)

\* the uploads: two requests, the name each file is sent under, and the rows
\* process_file reads from each sheet
Cases == {1, 2}
FileNames == {"costing.xlsx", "costing_v2.xlsx"}
Sheets ==
    {<<>>,
     <<[manufacturer |-> <<"A", "C", "M", "E", " ">>, manufacturer_country |-> <<"C", "N">>],
       [material_name |-> Strap, country_of_origin |-> CN, hs_code |-> HsStrap, cost_per_pair |-> Cents(63)]>>,
     <<[manufacturer_id |-> <<"m", "f", "g", "-", "0", "0", "2">>,
        manufacturer_country |-> <<"V", "i", "e", "t", "n", "a", "m">>],
       [material_name |-> Sole, country_of_origin |-> CN, hs_code |-> HsSole, cost_per_pair |-> Cents(100)]>>,
     <<[manufacturer |-> <<"A", "C", "M", "E", " ">>, manufacturer_country |-> <<"C", "N">>],
       [material_name |-> Sole, country_of_origin |-> CN, hs_code |-> HsSole, cost_per_pair |-> Cents(100)],
       [material_name |-> Strap, country_of_origin |-> CN, hs_code |-> HsStrap]>>}

UploadInit ==
    /\ NoAnalysis
    /\ files = DeployedFiles
    /\ cache = EmptyCache
    /\ stale = FALSE
    /\ seen = NotSeen
    /\ engine = NoEngine
    /\ ret = NoCall
    /\ folder = [n \in FileNames |-> [saved |-> FALSE]]
    /\ requests \in [Cases -> [pc : {"save"}, name : FileNames, sheet : Sheets]]

\* upload_file: file.save(filepath) under the name the client sent
SaveFile(c) ==
    /\ requests[c].pc = "save"
    /\ folder' = [folder EXCEPT ![requests[c].name] = [saved |-> TRUE, rows |-> requests[c].sheet]]
    /\ requests' = [requests EXCEPT ![c] = [pc |-> "create", name |-> @.name, sheet |-> @.sheet]]
    /\ UNCHANGED <<analysisVars, serviceVars>>

\* upload_file: the AnalysisSession of the request is added and committed
CreateSession(c) ==
    /\ requests[c].pc = "create"
    /\ requests' = [requests EXCEPT ![c] = [pc |-> "process", name |-> @.name, sheet |-> @.sheet,
                                            case |-> [completed |-> FALSE]]]
    /\ UNCHANGED <<analysisVars, serviceVars, folder>>

\* upload_file: process_file(filepath) reads what the folder holds under the name
ProcessUpload(c) ==
    /\ requests[c].pc = "process"
    /\ LET rows == folder[requests[c].name].rows
       IN  requests' = [requests EXCEPT ![c] = [pc |-> IF rows = <<>> THEN "aborted" ELSE "analyze",
                                                name |-> @.name, sheet |-> @.sheet, case |-> @.case,
                                                data |-> rows]]
    /\ UNCHANGED <<analysisVars, serviceVars, folder>>

\* upload_file: OriginAnalyzer().analyze_origin(data, session.id); the analyzer,
\* its engine and the rows of the case belong to the request
AnalyzeUpload(c) ==
    /\ requests[c].pc = "analyze"
    /\ cache' = CachedLoad(cache, files, "csv")
    /\ engine' = [built |-> TRUE, fta_rules |-> load_fta_rules(files)]
    /\ requests' = [requests EXCEPT ![c] =
                       [pc |-> "done", name |-> @.name, sheet |-> @.sheet, data |-> @.data,
                        case |-> [completed |-> TRUE,
                                  result |-> analyze_origin(@.data, cache'.table, engine'.fta_rules)]]]
    /\ UNCHANGED <<analysisVars, files, stale, seen, ret, folder>>

UploadNext == \E c \in Cases : SaveFile(c) \/ CreateSession(c) \/ ProcessUpload(c) \/ AnalyzeUpload(c)

UploadSpec == UploadInit /\ [][UploadNext]_vars

\* ------------------------------------------------------------------------
\* One analyzer, several cases
\* ------------------------------------------------------------------------
\* the same OriginAnalyzer instance is handed another case: analyze_origin
\* starts on a new AnalysisSession with new rows; self.analysis_steps and
\* self.missing_fields are assigned in __init__ only and keep their entries.
\* MaxCarried bounds the entries an instance may hold when it is reused
MaxCarried == 2

\* the rows of the cases that follow the first one
NextCases == Sheets \ {<<>>}

analyze_next_case ==
    /\ pc = "done"
    /\ Len(analysis_steps) + Len(missing_fields) <= MaxCarried
    /\ data' \in NextCases
    /\ session' = [completed |-> FALSE]
    /\ materials' = <<>>
    /\ verdict' = <<>>
    /\ enrichment' = NotEnriched
    /\ commits' = <<Snapshot(session', materials')>>
    /\ pc' = "step1"
    /\ UNCHANGED <<fta_rules, analysis_steps, missing_fields>>
    /\ UNCHANGED <<serviceVars, uploadVars>>

ReuseNext == Next \/ analyze_next_case

\* cases analysed one after the other by one OriginAnalyzer instance
ReuseSpec == Init /\ [][ReuseNext]_vars

\* ------------------------------------------------------------------------
\* What the claims speak of
\* ------------------------------------------------------------------------
\* the stored audit trail of the case (NULL until the first step is recorded)
Trail == IF "analysis_steps" \in DOMAIN session THEN session.analysis_steps ELSE <<>>

\* the stored missing-field list (NULL until finalization)
StoredMissing == IF "missing_fields" \in DOMAIN session THEN session.missing_fields ELSE <<>>

IsPrefixOf(s, t) == Len(s) <= Len(t) /\ SubSeq(t, 1, Len(s)) = s

InSeq(x, s) == \E i \in DOMAIN s : s[i] = x

Finished == pc = "done"

\* the name and the identifier step 1 extracts from the rows
GivenName == ScanRows(data, "manufacturer", <<>>)
GivenId == ScanRows(data, "manufacturer_id", <<>>)

\* no row supplies a non-empty manufacturer or manufacturer_id
NoManufacturerGiven ==
    \A i \in DOMAIN data : ~HasText(data[i], "manufacturer") /\ ~HasText(data[i], "manufacturer_id")

\* no row supplies a manufacturer_country value
NoCountryDeclared == \A i \in DOMAIN data : ~HasText(data[i], "manufacturer_country")

\* step 1 has resolved the manufacturer as Vietnamese
ResolvedVietnamese == Len(Trail) >= 1 /\ Trail[1].is_vietnamese

\* analyze_origin returned after step 1
StoppedAtStep1 ==
    /\ pc \in {"finalize", "done"}
    /\ Len(Trail) <= 1
    /\ verdict.result = "non_originating"

\* a screened row whose HS code is under heading 6406
CriticalRow(row) == IsScreened(row) /\ "hs_code" \in DOMAIN row /\ StartsWith(row["hs_code"], Key6406)

NoCriticalRow == \A i \in DOMAIN data : ~CriticalRow(data[i])

\* no screened row carries a cost that float() rejects
NoStepRaises == \A i \in DOMAIN data : ~(IsScreened(data[i]) /\ CostRaises(data[i]))

\* the first HS code of the rows exists and is valid
FirstHsCodeValid == HsCodes(data) # <<>> /\ is_valid_hs_code(HsCodes(data)[1])

\* the decimal amounts (in 1/100) the cost cells of the rows are parsed from
CostCents == {-50, 0, 7, 63, 100, 900}
CentsOf(v) == CHOOSE c \in CostCents : Cents(c) = v

\* the exact sum of the known costs of the screened rows, in 1/100; critical:
\* of the rows under heading 6406 only
RECURSIVE KnownCents(_, _)
KnownCents(rows, critical) ==
    IF rows = <<>> THEN 0
    ELSE (IF /\ IsScreened(Head(rows))
             /\ CostGiven(Head(rows))
             /\ IsFloat(Head(rows)["cost_per_pair"])
             /\ (critical => CriticalRow(Head(rows)))
          THEN CentsOf(Head(rows)["cost_per_pair"]) ELSE 0)
         + KnownCents(Tail(rows), critical)

\* the binary64 sum, in row order, of the known costs of the screened rows
RECURSIVE KnownCost(_, _, _)
KnownCost(rows, critical, acc) ==
    IF rows = <<>> THEN acc
    ELSE KnownCost(Tail(rows), critical,
                   IF /\ IsScreened(Head(rows))
                      /\ CostGiven(Head(rows))
                      /\ (critical => CriticalRow(Head(rows)))
                   THEN FAdd(acc, Head(rows)["cost_per_pair"]) ELSE acc)

\* the material record comes from a screened row that has no cost_per_pair
CostOmitted(m) ==
    \E i \in DOMAIN data :
        /\ IsScreened(data[i])
        /\ "cost_per_pair" \notin DOMAIN data[i]
        /\ NewMaterial(data[i]).material_name = m.material_name
        /\ NewMaterial(data[i]).hs_code = m.hs_code
        /\ NewMaterial(data[i]).country_of_origin = m.country_of_origin

\* ------------------------------------------------------------------------
\* Claims
\* ------------------------------------------------------------------------
\* C1: in every reachable state of the case, completed is true if and only if
\* final_result and result_reason are both non-null.
C1_CompletedIffVerdictAndReason ==
    session.completed <=> ("final_result" \in DOMAIN session /\ "result_reason" \in DOMAIN session)

C1_Witness == Finished /\ session.completed /\ "final_result" \in DOMAIN session

\* C2: at every point of analyze_origin the stored audit trail's step numbers
\* are exactly 1..k for some k in 0..7, and an entry once appended is never
\* removed or reordered (the trail of the next state extends the trail).
C2_TrailIsGrowingPrefix ==
    /\ [](Len(Trail) <= 7 /\ \A i \in DOMAIN Trail : Trail[i].step = i)
    /\ [][IsPrefixOf(Trail, Trail')]_vars

C2_Witness == Finished /\ Len(Trail) = 7

\* C3 (as claimed): when no row supplies a manufacturer or a manufacturer_id,
\* analyze_origin ends with verdict incomplete, manufacturer is among the
\* missing fields and no step from 2 to 7 has run.
C3_MissingManufacturerIsIncomplete ==
    (Finished /\ NoManufacturerGiven) =>
        /\ session.final_result = "incomplete"
        /\ InSeq(Field("manufacturer"), StoredMissing)
        /\ \A i \in DOMAIN Trail : Trail[i].step < 2

\* C4 (as claimed): with a name or identifier that the registry does not know
\* and no manufacturer_country in any row, the case ends incomplete, with the
\* could-not-be-verified reason and a missing-field flag, whatever the
\* country_of_origin of the rows.
C4_UnverifiedIsIncomplete ==
    (/\ Finished
     /\ ~NoManufacturerGiven
     /\ ~lookup(Registry, GivenName, GivenId).found
     /\ NoCountryDeclared) =>
        /\ session.final_result = "incomplete"
        /\ session.result_reason = Text("Manufacturer could not be verified (missing data).")
        /\ InSeq(Field("manufacturer_country (or manufacturers.csv entry)"), StoredMissing)

\* C5: whenever the registry lookup of step 1 finds the manufacturer, the
\* Vietnam decision recorded by step 1 and the branch taken are the registry's
\* is_vietnam, whatever country the rows declare.
C5_RegistryIsAuthoritative ==
    (/\ pc \notin {"process_file", "aborted", "step1"}
     /\ ~NoManufacturerGiven
     /\ lookup(Registry, GivenName, GivenId).found) =>
        LET is_vn == lookup(Registry, GivenName, GivenId).is_vietnam
        IN  /\ Len(Trail) >= 1
            /\ Trail[1].is_vietnamese = is_vn
            /\ Trail[1].proceed = is_vn
            /\ StoppedAtStep1 = ~is_vn

\* a finished step 1 where the registry says not Vietnam and a row declares Vietnam
C5_Witness ==
    /\ pc = "finalize"
    /\ Len(Trail) = 1
    /\ lookup(Registry, GivenName, GivenId).found
    /\ ~lookup(Registry, GivenName, GivenId).is_vietnam
    /\ CountryIsVietnam(ScanRows(data, "manufacturer_country", <<>>))

\* C6 (as claimed): a manufacturer resolved as Vietnamese and no problematic
\* material under heading 6406 give the verdict originating.
C6_VietnameseWithoutCriticalIsOriginating ==
    (Finished /\ ResolvedVietnamese /\ NoCriticalRow) => session.final_result = "originating"

\* C6 (amended): the same, for rows whose first HS code is valid and none of
\* whose screened rows carries a cost that is no number.
C6_Amended ==
    (Finished /\ ResolvedVietnamese /\ NoCriticalRow /\ FirstHsCodeValid /\ NoStepRaises) =>
        session.final_result = "originating"

\* such a case that ran through step 6, with a screened material
C6_Witness ==
    /\ Finished /\ ResolvedVietnamese /\ NoCriticalRow /\ FirstHsCodeValid /\ NoStepRaises
    /\ Len(Trail) = 6
    /\ materials # <<>>
    /\ session.final_result = "originating"

\* C7 (as claimed): step 7 compares the percentage against the threshold the
\* rule table resolves for the final HS code: the verdict is originating iff
\* percentage <= that threshold, else non_originating.
C7_VerdictUsesResolvedThreshold ==
    (Finished /\ Len(Trail) = 7) =>
        LET met == FLeq(Trail[7].percentage,
                        get_threshold_for_hs_code(fta_rules, session.final_hs_code))
        IN  session.final_result = IF met THEN "originating" ELSE "non_originating"

\* C8 (as claimed): with a resolved threshold of 10, a case that reaches step 7
\* is non_originating when the known cost of the critical-heading materials is
\* strictly more than 10% of the total known cost and originating when it is
\* exactly 10% or less.
C8_InclusiveAtTenPercent ==
    (/\ Finished
     /\ Len(Trail) = 7
     /\ get_threshold_for_hs_code(fta_rules, session.final_hs_code) = FromInt(10)) =>
        session.final_result = IF 10 * KnownCents(data, TRUE) <= KnownCents(data, FALSE)
                               THEN "originating" ELSE "non_originating"

\* C9 (as claimed): in every finalized case, every material record whose cost
\* was omitted in its row is in missing_fields under its name, whichever
\* step produced the verdict.
C9_OmittedCostIsFlagged ==
    Finished =>
        \A j \in DOMAIN materials :
            CostOmitted(materials[j]) =>
                InSeq(FieldFor("cost_per_pair_for_", materials[j].material_name), StoredMissing)

\* C10: the total cost of step 7 is the sum of the costs of the materials with
\* known cost and the numerator the sum over the critical-heading materials
\* with known cost; a material without cost adds to neither and is listed as
\* missing.
C10_SumsOverKnownCosts ==
    Len(Trail) = 7 =>
        /\ Trail[7].total_cost = KnownCost(data, FALSE, FZero)
        /\ Trail[7].materials_6406_cost = KnownCost(data, TRUE, FZero)
        /\ \A j \in DOMAIN materials :
               "cost_per_pair" \notin DOMAIN materials[j] =>
                   InSeq(materials[j].material_name, Trail[7].missing_cost_data)

\* step 7 ran over a critical material with a cost and a material without one
C10_Witness ==
    /\ Len(Trail) = 7
    /\ Trail[7].missing_cost_data # <<>>
    /\ Trail[7].materials_6406_cost # FZero

\* the code without its spaces and its dots
WithoutSeparators(code) == SelectSeq(code, LAMBDA c : c \notin {" ", "."})

\* C11 (as claimed): is_valid_hs_code returns true if and only if the code,
\* after removing spaces and separators, consists of exactly 4, 6, 8 or 10
\* decimal digits.
C11_ValidIffFourSixEightTenDigits ==
    ret.op = "is_valid_hs_code" =>
        LET code == WithoutSeparators(ret.args)
        IN  ret.value <=> (/\ Len(code) \in {4, 6, 8, 10}
                           /\ \A i \in DOMAIN code : code[i] \in Digits)

\* the first hs_code value of the rows that is not empty, <<>> when there is none
RECURSIVE FirstGivenHsCode(_)
FirstGivenHsCode(rows) ==
    IF rows = <<>> THEN <<>>
    ELSE IF HasText(Head(rows), "hs_code") /\ Strip(Head(rows)["hs_code"]) # <<>>
         THEN Strip(Head(rows)["hs_code"])
         ELSE FirstGivenHsCode(Tail(rows))

\* a valid HS code: 4, 6, 8 or 10 digits once spaces and dots are removed
FourSixEightTenDigits(code) ==
    LET c == WithoutSeparators(code)
    IN  Len(c) \in {4, 6, 8, 10} /\ \A i \in DOMAIN c : c[i] \in Digits

\* step 1 let the analysis proceed and step 2 has run
Step2Ran ==
    /\ pc \in {"step3", "step4", "step5", "step6", "step7", "finalize", "done"}
    /\ Len(Trail) >= 1
    /\ Trail[1].proceed

\* C12 (as claimed): step 2 takes the first non-empty hs_code in row order:
\* with none the verdict is incomplete; with an invalid one it is incomplete
\* with a reason naming the code, whatever the later rows; only a valid first
\* value is stored on the case.
C12_FirstHsCodeDecides ==
    Step2Ran =>
        LET first == FirstGivenHsCode(data)
        IN  IF first = <<>>
            THEN /\ verdict = [result |-> "incomplete", reason |-> Text("Final product HS code not found")]
                 /\ "final_hs_code" \notin DOMAIN session
            ELSE IF ~FourSixEightTenDigits(first)
            THEN /\ Len(Trail) = 1
                 /\ verdict = [result |-> "incomplete",
                               reason |-> Fmt("Invalid HS code format: {}", first)]
                 /\ "final_hs_code" \notin DOMAIN session
            ELSE /\ session.final_hs_code = first
                 /\ Trail[2].final_hs_code = first

\* C13 (as claimed): get_rules_for_hs_code returns the entry keyed by the exact
\* code if present, else the entry keyed by its 4-digit heading if present,
\* else the default entry, and a default entry with description and rules
\* always exists, whatever configuration file was loaded.
C13_ExactHeadingDefault ==
    ret.op = "get_rules_for_hs_code" =>
        LET table == ret.on
            code == WithoutSeparators(ret.args)
            heading == SubSeq(code, 1, IF Len(code) >= 4 THEN 4 ELSE Len(code))
        IN  IF code \in DOMAIN table THEN ret.value = table[code]
            ELSE IF heading \in DOMAIN table THEN ret.value = table[heading]
            ELSE /\ {"description", "rules"} \subseteq DOMAIN ret.value
                 /\ KeyDefault \in DOMAIN table => ret.value = table[KeyDefault]

\* a name or identifier as the registry compares it: trimmed, in lower case
Folded(t) == Lower(Strip(t))

\* the entries of a loaded table whose column equals the folded text
EntriesWith(table, column, t) ==
    SelectSeq(table, LAMBDA r : Folded(t) # <<>> /\ Folded(r[column]) = Folded(t))

\* C14 (as claimed): lookup compares trimmed and case-insensitively; an
\* identifier that matches an entry decides, even if the name matches
\* another; the name is tried only when the identifier is absent or matches
\* nothing; found is false exactly when neither gave a candidate.
C14_IdentifierThenName ==
    ret.op = "lookup" =>
        LET by_id == EntriesWith(ret.on, "manufacturer_id", ret.args.id)
            by_name == EntriesWith(ret.on, "name", ret.args.name)
        IN  IF by_id # <<>> THEN ret.value.found /\ ret.value.match = MatchOf(by_id[1])
            ELSE IF by_name # <<>> THEN ret.value.found /\ ret.value.match = MatchOf(by_name[1])
            ELSE ~ret.value.found

\* the country the rows declare: the first non-empty manufacturer_country,
\* else the first non-empty country_of_origin, <<>> without either
DeclaredCountry(rows) ==
    IF ScanRows(rows, "manufacturer_country", <<>>) # <<>>
    THEN ScanRows(rows, "manufacturer_country", <<>>)
    ELSE ScanRows(rows, "country_of_origin", <<>>)

DeclaresVietnam(rows) ==
    Folded(DeclaredCountry(rows)) \in {<<"v", "i", "e", "t", "n", "a", "m">>,
                                       <<"v", "i", "e", "t", " ", "n", "a", "m">>, <<"v", "n">>}

\* the manufacturer file does not exist and no table read earlier is cached
FileMissing == files.csv = NoFile /\ ~stale

C16_LookupAfterClearReadsNewFile ==
    [][(~stale /\ ret' # ret /\ ret'.op = "lookup") =>
           /\ ret'.on = load(files.csv)
           /\ ret'.value = lookup(load(files.csv), ret'.args.name, ret'.args.id)
      ]_vars

C16_Witness ==
    /\ ~stale
    /\ files.csv = RelocatedCsv
    /\ cache.loaded /\ cache.path = "csv"
    /\ ret.op = "lookup"
    /\ ret.on = load(RelocatedCsv)
    /\ ret.value # lookup(load(ManufacturersCsv), ret.args.name, ret.args.id)

\* analyze_origin gets as far as step 4 on these rows
ReachesStep4 ==
    /\ data # <<>>
    /\ step1_check_manufacturer(data, Registry).proceed
    /\ step2_find_hs_code(data).proceed

\* the entries steps 1 to 3 append on these rows
EntriesBeforeStep4 ==
    step1_check_manufacturer(data, Registry).steps
      \o step2_find_hs_code(data).steps
      \o step3_check_fta_rules(fta_rules, [final_hs_code |-> step2_find_hs_code(data).final_hs_code])

\* the first screened row whose cost float() rejects
FirstRaisingRow ==
    CHOOSE i \in DOMAIN data :
       /\ IsScreened(data[i]) /\ CostRaises(data[i])
       /\ \A j \in 1..(i - 1) : ~(IsScreened(data[j]) /\ CostRaises(data[j]))

\* C17: if a step of the sequence raises (here: step 4 on a cost that is no
\* number), analyze_origin ends with verdict error and a reason that holds the
\* failure description, the case is completed, and the audit trail is exactly
\* the entries appended before the failure, unchanged.
C17_RaiseEndsInErrorWithTrailKept ==
    (Finished /\ ReachesStep4 /\ ~NoStepRaises) =>
        /\ session.completed
        /\ session.final_result = "error"
        /\ session.result_reason =
               Fmt("Analysis error: could not convert string to float: '{}'",
                   data[FirstRaisingRow]["cost_per_pair"].text)
        /\ Trail = EntriesBeforeStep4
        /\ Trail = analysis_steps

C17_Witness ==
    /\ Finished /\ ReachesStep4 /\ ~NoStepRaises
    /\ session.final_result = "error"
    /\ Len(Trail) = 3
    /\ materials # <<>>

\* the enrichment fields of the case
EnrichmentFields == {"gemini_explanation", "missing_data_analysis"}

\* C18: the final_result, result_reason, missing_fields and completed flag a
\* run stores are fixed by the state before enrichment (the rows and the
\* reference tables), whichever way enrichment goes: live text, the template,
\* nothing or a raise; a raising enrichment leaves the enrichment fields unset
\* and the run still ends normally.
C18_EnrichmentNeverChangesVerdict ==
    [][pc = "finalize" =>
         /\ pc' = "done"
         /\ session'.final_result = verdict.result
         /\ session'.result_reason = verdict.reason
         /\ session'.missing_fields = missing_fields
         /\ session'.completed
         /\ enrichment'.raised => DOMAIN session' \cap EnrichmentFields = {}
      ]_vars

C18_Witness ==
    /\ Finished
    /\ enrichment.raised
    /\ StoredMissing # <<>>
    /\ session.final_result = "originating"
    /\ DOMAIN session \cap EnrichmentFields = {}

\* the backend is unavailable, raises, or answers with no text
BackendFails(args) ==
    \/ ~args.available
    \/ args.reply.kind \in {"raises", "none"}
    \/ args.reply.kind = "text" /\ args.reply.text = <<>>

TrailOf(c) == IF "analysis_steps" \in DOMAIN c.session THEN c.session.analysis_steps ELSE <<>>
EntryVisible(c, n) == \E i \in DOMAIN TrailOf(c) : TrailOf(c)[i].step = n
EntryOf(c, n) == TrailOf(c)[CHOOSE i \in DOMAIN TrailOf(c) : TrailOf(c)[i].step = n]

\* the materials of a snapshot that carry a note of step 5, of step 6
NotedByStep5(c) == SelectSeq(c.materials, LAMBDA m : Len(m.analysis_notes) >= 2)
NotedByStep6(c) == SelectSeq(c.materials, LAMBDA m : InSeq(" | Falls under heading 6406", m.analysis_notes))

\* C20 (as claimed): at every commit point of a run, what step n wrote is
\* visible if and only if the audit-trail entry numbered n is visible: the
\* case fields of steps 1 and 2, the material records of step 4, the notes of
\* steps 5 and 6.
C20_StepWritesVisibleWithEntry ==
    \A k \in DOMAIN commits :
       LET c == commits[k]
       IN  /\ "manufacturer" \in DOMAIN c.session => EntryVisible(c, 1)
           /\ "final_hs_code" \in DOMAIN c.session <=> EntryVisible(c, 2)
           /\ c.materials # <<>> => EntryVisible(c, 4)
           /\ EntryVisible(c, 4) => Len(c.materials) = EntryOf(c, 4).materials_found
           /\ NotedByStep5(c) # <<>> => EntryVisible(c, 5)
           /\ EntryVisible(c, 5) => Len(NotedByStep5(c)) = EntryOf(c, 5).materials_checked
           /\ NotedByStep6(c) # <<>> => EntryVisible(c, 6)
           /\ EntryVisible(c, 6) => Len(NotedByStep6(c)) = EntryOf(c, 6).materials_in_6406

\* step 1 has run on the rows
Step1Ran == pc \notin {"process_file", "step1", "aborted", "idle"}

\* the rows resolve the manufacturer, by the reference list or else by the
\* declared country, and it is not Vietnamese
ResolvedNotVietnamese ==
    /\ GivenName # <<>> \/ GivenId # <<>>
    /\ LET known == lookup(Registry, GivenName, GivenId)
       IN  \/ known.found /\ ~known.is_vietnam
           \/ ~known.found /\ DeclaredCountry(data) # <<>> /\ ~DeclaresVietnam(data)

\* C23: when the manufacturer is resolved, by the reference list or by the
\* declared country, and is not Vietnamese, the run goes from step 1 straight
\* to finalization with verdict non_originating and a reason saying the
\* manufacturer is not in Vietnam; the trail is the step-1 entry alone, no
\* final HS code is stored and no material record is created.
C23_NotVietnameseStopsAtStep1 ==
    (Step1Ran /\ ResolvedNotVietnamese) =>
        /\ pc \in {"finalize", "done"}
        /\ verdict.result = "non_originating"
        /\ verdict.reason \in
              {Text("Manufacturer found in reference list but not located in Vietnam."),
               Fmt("Provided manufacturer country is '{}', not Vietnam.", DeclaredCountry(data))}
        /\ Len(Trail) = 1 /\ Trail[1].step = 1 /\ ~Trail[1].is_vietnamese
        /\ Trail = analysis_steps
        /\ "final_hs_code" \notin DOMAIN session
        /\ materials = <<>>
        /\ Finished => /\ session.final_result = "non_originating"
                       /\ session.result_reason = verdict.reason

C23_Witness ==
    /\ Finished /\ ResolvedNotVietnamese
    /\ ~lookup(Registry, GivenName, GivenId).found
    /\ session.final_result = "non_originating"
    /\ \E i \in DOMAIN data : IsScreened(data[i])

\* the row's country of origin, as step 4 reads it
OriginOf(row) == IF "country_of_origin" \in DOMAIN row THEN Upper(Strip(row["country_of_origin"])) ELSE <<>>

\* the row names no country, Vietnam (as step 1 recognises it) or an EU member
VietnameseEuOrEmpty(row) ==
    \/ OriginOf(row) \in {<<>>, <<"N", "A", "N">>, <<"N", "O", "N", "E">>}
    \/ CountryIsVietnam(OriginOf(row))
    \/ OriginOf(row) \in eu_countries

NonNegative(x) == FLeq(FZero, x)

\* C27 (as claimed): the cost of every material record is absent or a
\* non-negative number, whatever number the row carries, and the percentage
\* of every step-7 entry lies between 0 and 100.
C27_CostsNonNegativePercentageBounded ==
    /\ \A i \in DOMAIN materials :
          "cost_per_pair" \in DOMAIN materials[i] => NonNegative(materials[i].cost_per_pair)
    /\ \A i \in DOMAIN analysis_steps :
          analysis_steps[i].step = 7 =>
              /\ NonNegative(analysis_steps[i].percentage)
              /\ FLeq(analysis_steps[i].percentage, FromInt(100))

\* the step numbers of the stored trail, in order
StepNumbers == [i \in DOMAIN Trail |-> Trail[i].step]

\* step 6 has run
Step6Ran == \E i \in DOMAIN analysis_steps : analysis_steps[i].step = 6

\* some problematic material has an HS code that starts with 6406
CriticalMaterialStored ==
    \E i \in DOMAIN materials :
       materials[i].is_problematic /\ StartsWith(materials[i].hs_code, <<"6", "4", "0", "6">>)

\* C28: once step 6 has run, if no problematic material has an HS code under
\* heading 6406 the run goes to finalization with verdict originating, the
\* trail is exactly steps 1..6 and step 7 never runs; if there is such a
\* material step 7 runs next and the trail then is exactly steps 1..7.
C28_Step6DecidesWhetherStep7Runs ==
    Step6Ran =>
        IF ~CriticalMaterialStored
        THEN /\ pc \in {"finalize", "done"}
             /\ StepNumbers = <<1, 2, 3, 4, 5, 6>>
             /\ verdict = [result |-> "originating",
                           reason |-> Text("No materials under heading 6406 found")]
             /\ Finished => session.final_result = "originating"
        ELSE /\ pc \in {"step7", "finalize", "done"}
             /\ pc = "step7" => StepNumbers = <<1, 2, 3, 4, 5, 6>>
             /\ pc # "step7" => StepNumbers = <<1, 2, 3, 4, 5, 6, 7>>

C28_Witness ==
    /\ Finished /\ Step6Ran /\ ~CriticalMaterialStored
    /\ materials # <<>>
    /\ session.final_result = "originating"
    /\ StepNumbers = <<1, 2, 3, 4, 5, 6>>

\* step 7 has run, and the entry it appended
Step7Ran == \E i \in DOMAIN analysis_steps : analysis_steps[i].step = 7
Step7Entry == analysis_steps[CHOOSE i \in DOMAIN analysis_steps : analysis_steps[i].step = 7]

\* the known costs of the screened rows add up to 0
TotalKnownCostIsZero == KnownCost(data, FALSE, FZero).m = Zero4

\* C29: when step 7 runs and the total known cost is 0 (for instance no
\* material has a cost), the percentage is 0, the verdict is originating, and
\* every material without a cost is listed in missing_fields.
C29_ZeroTotalIsZeroPercent ==
    (Step7Ran /\ TotalKnownCostIsZero) =>
        /\ Step7Entry.percentage = FZero
        /\ verdict.result = "originating"
        /\ \A i \in DOMAIN materials :
              "cost_per_pair" \notin DOMAIN materials[i] =>
                  InSeq(FieldFor("cost_per_pair_for_", materials[i].material_name), missing_fields)
        /\ Finished => /\ session.final_result = "originating"
                       /\ session.missing_fields = missing_fields

C29_Witness ==
    /\ Finished /\ Step7Ran /\ TotalKnownCostIsZero
    /\ Len(materials) >= 2
    /\ \A i \in DOMAIN materials : "cost_per_pair" \notin DOMAIN materials[i]
    /\ session.final_result = "originating"

\* step 5 has run
Step5Ran == \E i \in DOMAIN analysis_steps : analysis_steps[i].step = 5

\* how often missing_fields holds the entry, and how many problematic
\* materials of that name satisfy P
Flagged(key, name) == Len(SelectSeq(missing_fields, LAMBDA f : f = FieldFor(key, name)))
NamedWith(name, P(_)) ==
    Len(SelectSeq(materials, LAMBDA m : m.is_problematic /\ m.material_name = name /\ P(m)))

\* C30: after step 5, for every problematic material, missing_fields has an
\* entry hs_code_for_<name> exactly for a stored HS code that is empty and an
\* entry valid_hs_code_for_<name> exactly for one that is non-empty and fails
\* is_valid_hs_code (one entry per such material, none for a valid code);
\* and step 5 always goes on to step 6.
C30_Step5FlagsMissingAndInvalidCodes ==
    Step5Ran =>
        /\ \A i \in DOMAIN materials :
              LET name == materials[i].material_name
              IN  /\ Flagged("hs_code_for_", name)
                        = NamedWith(name, LAMBDA m : m.hs_code = <<>>)
                  /\ Flagged("valid_hs_code_for_", name)
                        = NamedWith(name, LAMBDA m : m.hs_code # <<>> /\ ~is_valid_hs_code(m.hs_code))
        /\ pc = "step6" \/ Step6Ran

C30_Witness ==
    /\ Step5Ran /\ Step6Ran
    /\ \E i, j \in DOMAIN materials :
          /\ materials[i].hs_code # <<>> /\ ~is_valid_hs_code(materials[i].hs_code)
          /\ Flagged("valid_hs_code_for_", materials[i].material_name) = 1
          /\ is_valid_hs_code(materials[j].hs_code)
          /\ Flagged("valid_hs_code_for_", materials[j].material_name) = 0
          /\ Flagged("hs_code_for_", materials[j].material_name) = 0

\* C25 (as claimed): in every finalization the verdict, the reason, the
\* missing-field list and the completion flag are set before the enrichment
\* service is called, each enrichment call is made at most once, and a status
\* query made while the enrichment call runs already returns the finalized
\* verdict.
C25_VerdictObservableBeforeEnrichment ==
    Finished =>
        /\ enrichment.in_memory.completed
        /\ enrichment.in_memory.final_result = verdict.result
        /\ enrichment.in_memory.result_reason = verdict.reason
        /\ enrichment.in_memory.missing_fields = missing_fields
        /\ enrichment.explanation_calls <= 1 /\ enrichment.analysis_calls <= 1
        /\ enrichment.status.completed
        /\ enrichment.status.result = verdict.result
        /\ enrichment.status.reason = verdict.reason

\* the case is in a terminal state
Terminal ==
    /\ session.completed
    /\ "final_result" \in DOMAIN session
    /\ session.final_result \in {"originating", "non_originating", "incomplete", "error"}

\* C22 (as claimed): every case created for an uploaded file eventually is
\* completed with one of the four verdicts, whatever the loader returns.
C22_EveryCaseCompletes == <>Terminal

\* C24 (as claimed): between two explicit cache clears the reference tables
\* seen do not change: every lookup uses the manufacturer table the lookups
\* since the last cache_clear() began with, also after load was called with
\* another path, and a newly constructed analyzer has the rule table the one
\* before it had.
C24_TablesFixedUntilExplicitReload ==
    [][/\ (seen.known /\ ret' # ret /\ ret'.op = "lookup") => ret'.on = seen.table
       /\ (engine.built /\ engine'.built) => engine'.fta_rules = engine.fta_rules
      ]_vars

\* what analyze_origin gives for the rows of a sheet processed alone
AloneOn(sheet) == analyze_origin(sheet, load(DeployedFiles.csv), load_fta_rules(DeployedFiles))

\* C21 (as claimed): when two cases are uploaded and processed concurrently,
\* in every interleaving each case ends with the verdict, the trail, the
\* missing fields and the material records it would get alone on the rows
\* uploaded for it.
C21_ConcurrentCasesAreIndependent ==
    \A c \in DOMAIN requests :
       /\ requests[c].pc = "done" => requests[c].case.result = AloneOn(requests[c].sheet)
       /\ requests[c].pc = "aborted" => requests[c].sheet = <<>>

\* the session object holds a verdict
VerdictWritten(s) == "final_result" \in DOMAIN s

\* C31 (as claimed): within one run the verdict is written once: when the
\* case holds a verdict, no later step of the run, a failure of the commit of
\* finalization included, leaves it with a different verdict.
C31_VerdictWrittenOnce ==
    [][(VerdictWritten(session) /\ VerdictWritten(session'))
          => session'.final_result = session.final_result]_vars

\* the entry of the table whose normalized identifier or name is the one asked for
Matches(row, q) ==
    \/ norm(q.id) # <<>> /\ row.id_norm = norm(q.id)
    \/ norm(q.name) # <<>> /\ row.name_norm = norm(q.name)

\* C32 (as claimed): a lookup answers found = true only with an entry of the
\* table whose normalized identifier is the identifier asked for or whose
\* normalized name is the name asked for; with both name and identifier
\* empty it answers found = false whatever the table holds.
C32_FoundOnlyForMatchingEntry ==
    [][(ret' # ret /\ ret'.op = "lookup") =>
          /\ ret'.value.found =>
                \E i \in DOMAIN ret'.on : /\ MatchOf(ret'.on[i]) = ret'.value.match
                                           /\ Matches(ret'.on[i], ret'.args)
          /\ (ret'.args.name = <<>> /\ ret'.args.id = <<>>) => ~ret'.value.found
      ]_vars

\* what a run of analyze_origin on the rows of the case alone produces
OwnRun == analyze_origin(data, Registry, fta_rules)

\* C33 (as claimed): when one OriginAnalyzer instance analyses cases one after
\* the other, the trail and the missing fields stored for a finished case are
\* those its own run produced: the trail is a prefix of 1..7 and neither list
\* carries an entry of an earlier case.
C33_ReusedAnalyzerStoresOwnEntriesOnly ==
    Finished =>
       /\ Trail = OwnRun.analysis_steps
       /\ StoredMissing = OwnRun.missing_fields
       /\ \A i \in DOMAIN Trail : \A j \in DOMAIN Trail : i < j => Trail[i].step < Trail[j].step

\* the rows step 4 screens, in the order of the material records it adds
ScreenedRows == SelectSeq(data, IsScreened)

\* the row carries a cost_per_pair value, and the value is the number 0
CarriesCost(row) == "cost_per_pair" \in DOMAIN row
CarriesZeroCost(row) ==
    CarriesCost(row) /\ IsFloat(row["cost_per_pair"]) /\ row["cost_per_pair"].m = Zero4

\* the cost of the material record is unknown (NULL)
CostUnknown(m) == "cost_per_pair" \notin DOMAIN m

\* C34 (as claimed): once step 7 has run, a screened material is stored with
\* unknown cost exactly when its row carries no cost_per_pair value, and
\* missing_fields holds one cost_per_pair_for_<name> entry for each such
\* material; a row with a cost of 0 is stored with the known cost 0.
C34_UnknownCostIffRowHasNone ==
    Step7Ran =>
       /\ Len(materials) = Len(ScreenedRows)
       /\ \A k \in DOMAIN materials :
             /\ CostUnknown(materials[k]) <=> ~CarriesCost(ScreenedRows[k])
             /\ CarriesZeroCost(ScreenedRows[k]) =>
                   ~CostUnknown(materials[k]) /\ materials[k].cost_per_pair = ScreenedRows[k]["cost_per_pair"]
             /\ Flagged("cost_per_pair_for_", materials[k].material_name)
                   = Len(SelectSeq(ScreenedRows,
                                   LAMBDA row : /\ NewMaterial(row).material_name = materials[k].material_name
                                                /\ ~CarriesCost(row)))

\* the case has a final HS code
FinalHsCodeSet == "final_hs_code" \in DOMAIN session

\* C35: in every state of a case, final_hs_code is unset or a code that
\* is_valid_hs_code accepts, and the trail holds an entry of steps 3 to 7 only
\* when final_hs_code is set.
C35_FinalHsCodeValidBeforeLaterSteps ==
    /\ FinalHsCodeSet => is_valid_hs_code(session.final_hs_code)
    /\ (\E i \in DOMAIN Trail : Trail[i].step \in 3..7) => FinalHsCodeSet
    /\ (\E i \in DOMAIN analysis_steps : analysis_steps[i].step \in 3..7) => FinalHsCodeSet

\* a finished case with a final HS code whose trail goes up to step 7
C35_Witness ==
    /\ Finished
    /\ FinalHsCodeSet
    /\ is_valid_hs_code(session.final_hs_code)
    /\ StepNumbers = <<1, 2, 3, 4, 5, 6, 7>>

====
